---- MODULE Spec2Model ----
(***************************************************************************)
(* State-machine model of the bithumb-tracker server (createServer in the  *)
(* hardened server module) and of the streaming BithumbFetcher it drives.  *)
(*                                                                         *)
(* Node runs every handler, timer callback and event listener to its next  *)
(* await without interleaving, so each action below is one such run.       *)
(* A response write "fails" when response.write throws, which is what the  *)
(* try/catch blocks of the broadcast loop and of the keep-alive expect.    *)
(***************************************************************************)
EXTENDS Integers, Sequences, FiniteSets, TLC

\* ------------------------------------------------------------------------
\* Bounds of the model (not program constants)
\* ------------------------------------------------------------------------
MaxNewConnections == 2   \* subscribe requests admitted to the per-IP check
MaxCycles == 1           \* periodic refresh cycles started
MaxDetails == 1          \* detail requests started
MaxAdmissions == 4       \* stream requests of the admission runs
MaxFailures == 7         \* failures recorded with the circuit breaker
BreakerHorizon == 150000 \* time (ms) the circuit-breaker runs go to
MaxRequests == 12        \* requests that reach the first middleware
RateHorizon == 2000      \* time (ms) up to which requests arrive a second apart
TimeoutHorizon == 700000 \* time (ms) the timeout runs go to
MaxStarts == 3           \* calls of start() on the fetcher under test

\* ------------------------------------------------------------------------
\* Program constants
\* ------------------------------------------------------------------------
THIRTY_MINUTES == 30 * 60 * 1000
MAX_SSE_PER_IP == 2
MAX_SSE_CONNECTIONS == 100
SSE_TIMEOUT == 5 * 60 * 1000
batchSize == 10
FAILURE_THRESHOLD == 5
CIRCUIT_RESET_TIMEOUT == 60000
BLACKLIST_DURATION == 60 * 60 * 1000
MAX_REQUESTS_PER_SECOND == 10
CleanupAge == 10
\* Date.now() / 1000 at process start.
EpochSeconds == 1700 * 1000 * 1000
HistoryLimit == 48

NULL == "null"

\* Client addresses as getClientIP returns them, kept as their ':'-separated
\* groups (an IPv4 address is one group).
IPs == { <<"10.0.0.1">>, <<"2001", "4860", "", "1">> }

\* Addresses of the subscribers that are already connected in the pre-filled
\* start: MAX_SSE_PER_IP connections each.
Prefill == MAX_SSE_CONNECTIONS - 1
BackgroundIP(k) == << "172.16.0." \o ToString(k) >>
BackgroundIPs == { BackgroundIP(k) : k \in 1..((Prefill + MAX_SSE_PER_IP - 1) \div MAX_SSE_PER_IP) }
PrefillIP(id) == BackgroundIP((id + MAX_SSE_PER_IP - 1) \div MAX_SSE_PER_IP)
AllIPs == IPs \cup BackgroundIPs

Symbols == { "BTC", "ETH" }

\* The order of Object.keys / Object.values over the snapshots of the model.
SymbolOrder == << "BTC", "ETH" >>

Min(a, b) == IF a < b THEN a ELSE b

\* ------------------------------------------------------------------------
\* Asset records and snapshots
\* ------------------------------------------------------------------------
\* Raw metric values as the upstream API delivers them (strings), NULL when
\* the sub-call failed.
RawValues == { NULL, "1000", "1100", "1,100", "0", "abc" }

\* JavaScript numbers: NaN is << >>, a finite number << [inf |-> 0, n |-> n] >>
\* and +Infinity / -Infinity << [inf |-> 1 / -1, n |-> 0] >>.
NaN == << >>
Finite(n) == << [inf |-> 0, n |-> n] >>
Infinite(sign) == << [inf |-> sign, n |-> 0] >>
IsFinite(x) == x # NaN /\ x[1].inf = 0

\* parseFloat(String(v).replace(/,/g, '')) on the raw values of the model:
\* commas are dropped, the longest numeric prefix is read ("12abc" is 12),
\* "Infinity" is read as the infinite number, a string with no numeric
\* prefix is NaN.
ParseFloat(v) ==
  CASE v = "1000" -> Finite(1000)
    [] v = "1100" -> Finite(1100)
    [] v = "1,100" -> Finite(1100)
    [] v = "0" -> Finite(0)
    [] v = "3" -> Finite(3)
    [] v = "-5" -> Finite(-5)
    [] v = "99999" -> Finite(99999)
    [] v = "100000" -> Finite(100000)
    [] v = "12abc" -> Finite(12)
    [] v = "Infinity" -> Infinite(1)
    [] v = "-Infinity" -> Infinite(-1)
    [] OTHER -> NaN

\* !v of JavaScript on the raw values of the model (null and '' are falsy;
\* the non-empty string "0" is truthy).
Falsy(v) == v \in { NULL, "" }

Abs(n) == IF n < 0 THEN -n ELSE n

\* a - b of two numbers that are not NaN.
JsSub(a, b) ==
  IF a[1].inf # 0
  THEN IF b[1].inf = a[1].inf THEN NaN ELSE a
  ELSE IF b[1].inf # 0 THEN Infinite(-b[1].inf)
  ELSE Finite(a[1].n - b[1].n)

\* The text of Number.prototype.toFixed(2): sign, integer part and two
\* decimals, or the words Infinity / NaN for a number that is not finite.
Fixed(neg, whole, frac) == [neg |-> neg, whole |-> whole, frac |-> frac, word |-> ""]
NotFixed(neg, word) == [neg |-> neg, whole |-> 0, frac |-> 0, word |-> word]

\* A variant that cuts the digits after the second decimal off.
ToFixed2Truncated(num, den) ==
  LET neg == num # 0 /\ ((num < 0) # (den < 0))
      h == (Abs(num) * 10000) \div Abs(den)
  IN  Fixed(neg, h \div 100, h % 100)

\* toFixed(2) of num / den * 100 for finite num and den # 0: rounded to the
\* nearest hundredth (the raw values of the model give no ties), with the
\* minus sign of every negative number, also one that rounds to 0.00.
ToFixed2(num, den) ==
  LET neg == num # 0 /\ ((num < 0) # (den < 0))
      h == (2 * Abs(num) * 10000 + Abs(den)) \div (2 * Abs(den))
  IN  Fixed(neg, h \div 100, h % 100)

\* ((change / oldNum) * 100).toFixed(2) for oldNum neither NaN nor 0.
PercentText(change, oldNum) ==
  IF change = NaN THEN NotFixed(FALSE, "NaN")
  ELSE IF change[1].inf # 0
  THEN IF oldNum[1].inf # 0 THEN NotFixed(FALSE, "NaN")
       ELSE NotFixed((change[1].inf < 0) # (oldNum[1].n < 0), "Infinity")
  ELSE IF oldNum[1].inf # 0 THEN Fixed(FALSE, 0, 0)
  ELSE ToFixed2(change[1].n, oldNum[1].n)

\* A change record is << >> (null) or << [absolute, percent] >>.
NoChange == << >>

calculateChange(newValue, oldValue) ==
  IF Falsy(newValue) \/ Falsy(oldValue) THEN NoChange
  ELSE LET newNum == ParseFloat(newValue)
           oldNum == ParseFloat(oldValue)
       IN  IF newNum = NaN \/ oldNum = NaN THEN NoChange
           ELSE IF oldNum = Finite(0) THEN NoChange
           ELSE LET change == JsSub(newNum, oldNum)
                IN  << [absolute |-> change,
                        percent |-> PercentText(change, oldNum)] >>

\* The record fetchCoinDetails builds (identity plus the four metrics).
Coin(sym, h, c) ==
  [symbol |-> sym, holders |-> h, circulation |-> c,
   holder_influence |-> NULL, trader_influence |-> NULL]

\* The same record with all four metrics given.
Coin4(sym, h, c, hi, ti) ==
  [symbol |-> sym, holders |-> h, circulation |-> c,
   holder_influence |-> hi, trader_influence |-> ti]

EmptySnapshot == [s \in {} |-> NULL]

\* Results of one fetchAll, as the upstream can deliver them.
Snap1 == [s \in {"BTC"} |-> Coin(s, "1000", "0")]
Snap2 == [s \in {"BTC", "ETH"} |-> IF s = "BTC" THEN Coin(s, "1100", NULL)
                                                 ELSE Coin(s, "1000", "abc")]
Snap3 == [s \in {"ETH"} |-> Coin(s, "1100", "1000")]
FetchResults == { EmptySnapshot, Snap2 }

\* Records one streaming detail fetch can produce for an asset.
Details(sym) == { Coin(sym, "1,100", NULL) }

\* Asset directories the intro endpoint can return.
Directories == { << "BTC", "ETH" >> }

\* Object.values(snapshot) in key order.
RECURSIVE ValuesFrom(_, _)
ValuesFrom(snap, k) ==
  IF k > Len(SymbolOrder) THEN << >>
  ELSE IF SymbolOrder[k] \in DOMAIN snap
       THEN << snap[SymbolOrder[k]] >> \o ValuesFrom(snap, k + 1)
       ELSE ValuesFrom(snap, k + 1)
ObjectValues(snap) == ValuesFrom(snap, 1)

\* The periodic callback's change computation over the fetched snapshot.
AnnotateCoin(newData, oldData, stamp) ==
  [symbol |-> newData.symbol, holders |-> newData.holders,
   circulation |-> newData.circulation,
   holder_influence |-> newData.holder_influence,
   trader_influence |-> newData.trader_influence,
   holders_change |-> calculateChange(newData.holders, oldData.holders),
   circulation_30min_change |-> calculateChange(newData.circulation, oldData.circulation),
   holder_influence_change |-> calculateChange(newData.holder_influence, oldData.holder_influence),
   trader_influence_change |-> calculateChange(newData.trader_influence, oldData.trader_influence),
   prev_holders |-> oldData.holders, prev_circulation |-> oldData.circulation,
   prev_holder_influence |-> oldData.holder_influence,
   prev_trader_influence |-> oldData.trader_influence,
   last_update |-> stamp]

\* A variant of the change computation that keeps the assets of the prior
\* snapshot which the fetch did not deliver.
ComputeChangesMerging(updatedData, prev, stamp) ==
  [s \in DOMAIN updatedData \cup DOMAIN prev |->
     IF s \notin DOMAIN updatedData THEN prev[s]
     ELSE IF s \in DOMAIN prev THEN AnnotateCoin(updatedData[s], prev[s], stamp)
     ELSE updatedData[s]]

\* A variant of the change computation that annotates every fetched asset,
\* one without a prior entry against its own values.
ComputeChangesStampingAll(updatedData, prev, stamp) ==
  [s \in DOMAIN updatedData |->
     IF s \in DOMAIN prev THEN AnnotateCoin(updatedData[s], prev[s], stamp)
     ELSE AnnotateCoin(updatedData[s], updatedData[s], stamp)]

ComputeChanges(updatedData, prev, stamp) ==
  [s \in DOMAIN updatedData |->
     IF s \in DOMAIN prev THEN AnnotateCoin(updatedData[s], prev[s], stamp)
     ELSE updatedData[s]]

\* ------------------------------------------------------------------------
\* State
\* ------------------------------------------------------------------------
VARIABLES
  coinsCache,           \* current snapshot: symbol -> asset record
  previousCache,        \* snapshot replaced by the last refresh
  coinsHistory,         \* symbol -> number of history entries kept
  lastHistorySave,      \* time of the last history save
  saveInterval,         \* TRUE while the periodic refresh timer is set
  initPc,               \* position of initializeData
  cyclesInFlight,       \* periodic callbacks awaiting their fetchAll
  cyclesStarted,        \* periodic callbacks started so far
  cyclesPending,        \* the numbers of the callbacks awaiting their fetchAll
  persisted,            \* snapshots handed to dataManager.saveData
  sseConnections,       \* registry: connection id -> connectionInfo
  connectionIdCounter,
  sseConnectionsPerIP,  \* ip -> count
  requests,             \* connection id -> [ip, state] of its request stream:
                        \*   "open" | "errored" | "closed"
  timeoutTimers,        \* ids whose 5-minute timeout is armed
  keepAliveTimers,      \* ids whose keep-alive interval is armed
  fetchers,             \* streaming fetchers created by the stream handler
  sent,                 \* connection id -> data events written to its response
  ended,                \* ids whose response was ended
  detailsInFlight,      \* detail requests awaiting the price lookup
  detailsStarted,
  lastResponse,         \* the last HTTP response sent by a modelled handler
  connBase,             \* connections registered before the modelled run
  connLimit,            \* highest connection id the modelled run goes to
  now,                  \* milliseconds since process start
  circuitBreakerState,  \* "closed" | "open" | "half-open"
  failureCount,
  breakerTimers,        \* due times of the pending half-open timers, in order
  requestCounts,        \* << ip, second >> -> requests counted in that bucket
  blacklistedIPs,
  blacklistTimers,      \* pending blacklist removals: [ip, due], in order
  arrivals,             \* [ip, second, n]: the client address observed and
                        \*   the requests it sent in its latest bucket
  requestsSeen,         \* requests that reached the first middleware
  lastOpened,           \* time of the breaker's latest change to open
  running,              \* this.running of the BithumbFetcher under test
  runs,                 \* the start() invocations of that fetcher, in order
  starts,               \* calls of start() on it
  call,                 \* the fetchCoinDetails / fetchAll call under test
  returned,             \* what that call settled to
  shutdownReturned      \* shutdown() has been called and has returned

cacheVars == << coinsCache, coinsHistory, lastHistorySave >>
regVars == << sseConnections, timeoutTimers, keepAliveTimers, fetchers, sent, ended >>
schedVars == << previousCache, saveInterval, initPc, cyclesInFlight,
                cyclesStarted, cyclesPending, persisted >>
admVars == << connectionIdCounter, sseConnectionsPerIP, requests >>
detailVars == << detailsInFlight, detailsStarted >>
obsVars == << lastResponse >>
breakerVars == << circuitBreakerState, failureCount, breakerTimers, lastOpened >>
rateVars == << requestCounts, blacklistedIPs, blacklistTimers, arrivals,
               requestsSeen >>

unitVars == << running, runs, starts, call, returned >>

hubVars == << cacheVars, regVars, schedVars, admVars, detailVars, connBase,
             connLimit, unitVars, shutdownReturned >>
vars == << hubVars, obsVars, breakerVars, rateVars, now >>

\* What the last step wrote to a client: an HTTP response of a handler, a
\* ':ping' comment on the stream of connection conn, or the data events of
\* one batch, with the connections whose write threw.
NoResponse == [kind |-> "none", status |-> 0, conn |-> 0, failed |-> {}]
Response(k, st) == [kind |-> k, status |-> st, conn |-> 0, failed |-> {}]
Ping(id) == [kind |-> "ping", status |-> 0, conn |-> id, failed |-> {}]
Publish(f, failing) == [kind |-> "publish", status |-> 0, conn |-> f, failed |-> failing]

Registered == DOMAIN sseConnections

\* Connections the environment's events (disconnects, timeouts, write
\* failures) are drawn from: those accepted in the modelled run and the
\* last one registered before it.
EventIds == { id \in 1..connectionIdCounter : id >= connBase }

\* ------------------------------------------------------------------------
\* The parts of the state that cleanupConnection and handleData work on,
\* as one record, so that loops over the registry can be folded.
\* ------------------------------------------------------------------------
Hub ==
  [conns |-> sseConnections, tt |-> timeoutTimers, ka |-> keepAliveTimers,
   fe |-> fetchers, sent |-> sent, ended |-> ended, cache |-> coinsCache,
   hist |-> coinsHistory, lhs |-> lastHistorySave]

Commit(H) ==
  /\ sseConnections' = H.conns
  /\ timeoutTimers' = H.tt
  /\ keepAliveTimers' = H.ka
  /\ fetchers' = H.fe
  /\ sent' = H.sent
  /\ ended' = H.ended
  /\ coinsCache' = H.cache
  /\ coinsHistory' = H.hist
  /\ lastHistorySave' = H.lhs

\* The teardown that forgets the keep-alive interval.
CleanupLeavesKeepAlive(H, ids) ==
  LET gone == ids \cap DOMAIN H.conns
      owned == { H.conns[c].fetcher : c \in gone } \ {0}
  IN  [H EXCEPT
        !.tt = @ \ gone,
        !.fe = [f \in DOMAIN H.fe |->
                  IF f \in owned
                  THEN [H.fe[f] EXCEPT !.listening = FALSE, !.running = FALSE]
                  ELSE H.fe[f]],
        !.ended = @ \cup gone,
        !.conns = [c \in DOMAIN H.conns \ gone |-> H.conns[c]]]

\* The teardown without the early return for an id that is not registered.
CleanupUnchecked(H, ids) ==
  LET gone == ids \cap DOMAIN H.conns
      owned == { H.conns[c].fetcher : c \in gone } \ {0}
  IN  [H EXCEPT
        !.tt = @ \ ids,
        !.ka = @ \ ids,
        !.fe = [f \in DOMAIN H.fe |->
                  IF f \in owned
                  THEN [H.fe[f] EXCEPT !.listening = FALSE, !.running = FALSE]
                  ELSE H.fe[f]],
        !.ended = @ \cup ids,
        !.conns = [c \in DOMAIN H.conns \ gone |-> H.conns[c]]]

\* cleanupConnection applied to each id of ids in turn.  The teardowns of
\* different connections touch different timers, fetchers and registry
\* entries, so the result does not depend on the order; an id that is not
\* registered is skipped (the early return).
CleanupEach(H, ids) ==
  LET gone == ids \cap DOMAIN H.conns
      owned == { H.conns[c].fetcher : c \in gone } \ {0}
  IN  [H EXCEPT
        !.tt = @ \ gone,
        !.ka = @ \ gone,
        !.fe = [f \in DOMAIN H.fe |->
                  IF f \in owned
                  THEN [H.fe[f] EXCEPT !.listening = FALSE, !.running = FALSE]
                  ELSE H.fe[f]],
        !.ended = @ \cup gone,
        !.conns = [c \in DOMAIN H.conns \ gone |-> H.conns[c]]]

cleanupConnection(H, connectionId) == CleanupEach(H, {connectionId})

\* The loop gives up at the first write that throws.
BroadcastAbort(H, coinData, failing) ==
  IF failing \cap DOMAIN H.conns # {}
  THEN CleanupEach(H, failing)
  ELSE [H EXCEPT !.sent = [c \in DOMAIN H.sent |->
                             IF c \in DOMAIN H.conns THEN Append(H.sent[c], coinData)
                             ELSE H.sent[c]]]

\* sseConnections.forEach of handleData: every registered connection is
\* written to; a write that throws tears that connection down and the loop
\* goes on with the next one.
Broadcast(H, coinData, failing) ==
  LET written == DOMAIN H.conns \ failing
      W == [H EXCEPT !.sent = [c \in DOMAIN H.sent |->
                                 IF c \in written THEN Append(H.sent[c], coinData)
                                 ELSE H.sent[c]]]
  IN  CleanupEach(W, failing)

Put(snap, coinData) ==
  [s \in DOMAIN snap \cup {coinData.symbol} |->
     IF s = coinData.symbol THEN coinData ELSE snap[s]]

\* The 30-minute history save of handleData; only the length of each
\* symbol's history is kept (entries are pushed, the oldest dropped past 48).
SaveHistory(H, nowTs) ==
  IF nowTs - H.lhs >= THIRTY_MINUTES
  THEN [H EXCEPT
         !.hist = [s \in DOMAIN H.hist \cup DOMAIN H.cache |->
                     IF s \in DOMAIN H.cache
                     THEN Min((IF s \in DOMAIN H.hist THEN H.hist[s] ELSE 0) + 1,
                              HistoryLimit)
                     ELSE H.hist[s]],
         !.lhs = nowTs]
  ELSE H

handleData(H, coinData, failing, nowTs) ==
  Broadcast(SaveHistory([H EXCEPT !.cache = Put(@, coinData)], nowTs),
            coinData, failing)

\* fetcher.emit('data', ...) for the coins of one settled batch, in order:
\* the listener runs only while it is attached.
RECURSIVE EmitAll(_, _, _, _, _)
EmitAll(H, f, coins, failing, nowTs) ==
  IF coins = << >> THEN H
  ELSE EmitAll(IF H.fe[f].listening
               THEN handleData(H, Head(coins), failing, nowTs)
               ELSE H,
               f, Tail(coins), failing, nowTs)

\* ------------------------------------------------------------------------
\* Initial states
\* ------------------------------------------------------------------------
\* No BithumbFetcher method is under test: the fetcher is idle and no
\* fetchCoinDetails / fetchAll call is pending.
NoCall == [fn |-> "none"]
NotReturned == [status |-> "pending"]
UnitIdle ==
  /\ running = FALSE
  /\ runs = << >>
  /\ starts = 0
  /\ call = NoCall
  /\ returned = NotReturned

InitAdmission ==
  /\ now = 0
  /\ circuitBreakerState = "closed"
  /\ failureCount = 0
  /\ breakerTimers = << >>
  /\ requestCounts = [k \in {} |-> 0]
  /\ blacklistedIPs = {}
  /\ blacklistTimers = << >>
  /\ requestsSeen = 0
  /\ lastOpened = 0
  /\ shutdownReturned = FALSE
  /\ lastResponse = NoResponse
  /\ detailsInFlight = [price |-> 0, candle |-> 0]
  /\ detailsStarted = 0
  /\ cyclesInFlight = 0
  /\ cyclesStarted = 0
  /\ cyclesPending = {}
  /\ fetchers = << >>
  /\ ended = {}
  /\ previousCache = EmptySnapshot
  /\ coinsHistory = [s \in {} |-> 0]
  /\ lastHistorySave = 0

\* The server state right after createServer().
InitCreated ==
  /\ InitAdmission
  /\ coinsCache = EmptySnapshot
  /\ saveInterval = FALSE
  /\ initPc = "idle"
  /\ persisted = << >>
  /\ sseConnections = [id \in {} |-> 0]
  /\ connectionIdCounter = 0
  /\ sseConnectionsPerIP = [ip \in IPs |-> 0]
  /\ requests = [id \in {} |-> 0]
  /\ timeoutTimers = {}
  /\ keepAliveTimers = {}
  /\ sent = [id \in {} |-> << >>]
  /\ connBase = 0
  /\ connLimit = MaxNewConnections
  /\ arrivals = [ip |-> << "10.0.0.1" >>, second |-> -1, n |-> 0]

\* The state right after createServer(), no fetcher method under test.
InitFresh ==
  /\ InitCreated
  /\ UnitIdle

\* The state after initializeData fetched Snap1 and Prefill clients, two per
\* address, subscribed and got their replay: the registry is one short
\* of MAX_SSE_CONNECTIONS.
InitPrefilled ==
  /\ InitAdmission
  /\ UnitIdle
  /\ coinsCache = Snap1
  /\ saveInterval = TRUE
  /\ initPc = "done"
  /\ persisted = << Snap1 >>
  /\ sseConnections = [id \in 1..Prefill |-> [ip |-> PrefillIP(id), fetcher |-> 0, startTime |-> 0]]
  /\ connectionIdCounter = Prefill
  /\ sseConnectionsPerIP =
       [ip \in AllIPs |-> Cardinality({id \in 1..Prefill : PrefillIP(id) = ip})]
  /\ requests = [id \in 1..Prefill |-> [ip |-> PrefillIP(id), state |-> "open"]]
  /\ timeoutTimers = 1..Prefill
  /\ keepAliveTimers = 1..Prefill
  /\ sent = [id \in 1..Prefill |-> ObjectValues(Snap1)]
  /\ connBase = Prefill
  /\ connLimit = Prefill + MaxNewConnections
  /\ arrivals = [ip |-> << "10.0.0.1" >>, second |-> -1, n |-> 0]

\* The state after an initializeData whose fetch returned freshData, with
\* nothing saved before and no client connected yet; limit stream requests
\* will follow, and the requests of address client are counted.
InitServing(freshData, limit, client) ==
  /\ InitAdmission
  /\ UnitIdle
  /\ coinsCache = freshData
  /\ saveInterval = TRUE
  /\ initPc = "done"
  /\ persisted = IF DOMAIN freshData # {} THEN << freshData >> ELSE << >>
  /\ sseConnections = [id \in {} |-> 0]
  /\ connectionIdCounter = 0
  /\ sseConnectionsPerIP = [ip \in IPs |-> 0]
  /\ requests = [id \in {} |-> 0]
  /\ timeoutTimers = {}
  /\ keepAliveTimers = {}
  /\ sent = [id \in {} |-> << >>]
  /\ connBase = 0
  /\ connLimit = limit
  /\ arrivals = [ip |-> client, second |-> -1, n |-> 0]

Init ==
  \E freshData \in { EmptySnapshot, Snap1 } :
    InitServing(freshData, MaxNewConnections, << "10.0.0.1" >>)

\* ------------------------------------------------------------------------
\* initializeData and the periodic refresh
\* ------------------------------------------------------------------------
HasAssetsAlways(data) == TRUE

\* data && Object.keys(data).length > 0 for the object a load or a fetch
\* gave.
HasAssets(data) == DOMAIN data # {}

SavedSnapshots == { EmptySnapshot, Snap1 }

Quiet == lastResponse' = NoResponse

InitializeStart ==
  /\ initPc = "idle"
  /\ initPc' = "load"
  /\ Quiet
  /\ UNCHANGED << cacheVars, regVars, previousCache, saveInterval, cyclesInFlight,
                  cyclesStarted, cyclesPending, persisted, admVars, detailVars, connBase, connLimit, unitVars, shutdownReturned,
                  breakerVars, rateVars, now >>

\* loadLatestData settles; on success the fetcher is created and fetchAll
\* begins with the directory call.
InitLoaded(savedData, ok) ==
  /\ initPc = "load"
  /\ IF ok
     THEN /\ coinsCache' = IF HasAssets(savedData) THEN savedData ELSE coinsCache
          /\ initPc' = "fetch"
     ELSE /\ initPc' = "failed"
          /\ UNCHANGED coinsCache
  /\ lastResponse' = NoResponse
  /\ UNCHANGED << coinsHistory, lastHistorySave, regVars, previousCache,
                  saveInterval, cyclesInFlight, cyclesStarted, cyclesPending, persisted, admVars,
                  detailVars, connBase, connLimit, unitVars, shutdownReturned, breakerVars, rateVars, now >>

\* fetchAll settles (it catches every error and then returns {}).
InitFetched(freshData) ==
  /\ initPc = "fetch"
  /\ IF HasAssets(freshData)
     THEN /\ coinsCache' = freshData
          /\ persisted' = Append(persisted, freshData)
          /\ initPc' = "save"
     ELSE /\ initPc' = "clean"
          /\ UNCHANGED << coinsCache, persisted >>
  /\ Quiet
  /\ UNCHANGED << coinsHistory, lastHistorySave, regVars, previousCache,
                  saveInterval, cyclesInFlight, cyclesStarted, cyclesPending, admVars,
                  detailVars, connBase, connLimit, unitVars, shutdownReturned, breakerVars, rateVars, now >>

\* The fetcher of the factory has no fetchAll, or its fetchAll rejects: the
\* catch of initializeData logs, and initializeData ends there.
InitFetchRejected ==
  /\ initPc = "fetch"
  /\ initPc' = "failed"
  /\ Quiet
  /\ UNCHANGED << cacheVars, regVars, previousCache, saveInterval, cyclesInFlight,
                  cyclesStarted, cyclesPending, persisted, admVars, detailVars, connBase,
                  connLimit, unitVars, shutdownReturned, breakerVars, rateVars,
                  now >>

\* saveData settles (it never rejects); cleanOldData is called.
InitSaved ==
  /\ initPc = "save"
  /\ initPc' = "clean"
  /\ Quiet
  /\ UNCHANGED << cacheVars, regVars, previousCache, saveInterval, cyclesInFlight,
                  cyclesStarted, cyclesPending, persisted, admVars, detailVars, connBase, connLimit, unitVars, shutdownReturned,
                  breakerVars, rateVars, now >>

\* cleanOldData settles (it never rejects); the interval is (re)set.
InitCleaned ==
  /\ initPc = "clean"
  /\ initPc' = "done"
  /\ saveInterval' = TRUE
  /\ Quiet
  /\ UNCHANGED << cacheVars, regVars, previousCache, cyclesInFlight,
                  cyclesStarted, cyclesPending, persisted, admVars, detailVars, connBase, connLimit, unitVars, shutdownReturned,
                  breakerVars, rateVars, now >>

\* The interval fires: a fetcher is created and its fetchAll begins; limit
\* bounds the callbacks of a run.
TickUpTo(limit) ==
  /\ saveInterval
  /\ cyclesStarted < limit
  /\ cyclesStarted' = cyclesStarted + 1
  /\ cyclesInFlight' = cyclesInFlight + 1
  /\ cyclesPending' = cyclesPending \cup { cyclesStarted + 1 }
  /\ lastResponse' = NoResponse
  /\ UNCHANGED << cacheVars, regVars, previousCache, saveInterval, initPc,
                  persisted, admVars, detailVars, connBase, connLimit, unitVars, shutdownReturned, breakerVars,
                  rateVars, now >>

PeriodicTick == TickUpTo(MaxCycles)

\* The fetchAll of a periodic callback settles; the rest of the callback
\* runs (saveData never rejects).  Any of the pending callbacks can be the
\* one whose fetch settles.
PeriodicFetched(updatedData) ==
  /\ cyclesInFlight > 0
  /\ cyclesInFlight' = cyclesInFlight - 1
  /\ \E c \in cyclesPending : cyclesPending' = cyclesPending \ {c}
  /\ IF HasAssets(updatedData)
     THEN /\ previousCache' = coinsCache
          /\ coinsCache' = ComputeChanges(updatedData, coinsCache, now)
          /\ persisted' = Append(persisted, coinsCache')
     ELSE UNCHANGED << previousCache, coinsCache, persisted >>
  /\ Quiet
  /\ UNCHANGED << coinsHistory, lastHistorySave, regVars, saveInterval, initPc,
                  cyclesStarted, admVars, detailVars, connBase, connLimit, unitVars, shutdownReturned, breakerVars,
                  rateVars, now >>

\* The fetchAll of a periodic callback rejects: the catch of the callback
\* logs.
PeriodicFailed ==
  /\ cyclesInFlight > 0
  /\ cyclesInFlight' = cyclesInFlight - 1
  /\ \E c \in cyclesPending : cyclesPending' = cyclesPending \ {c}
  /\ Quiet
  /\ UNCHANGED << cacheVars, regVars, previousCache, saveInterval, initPc,
                  cyclesStarted, persisted, admVars, detailVars, connBase,
                  connLimit, unitVars, shutdownReturned, breakerVars, rateVars,
                  now >>

\* ------------------------------------------------------------------------
\* GET /api/stream
\* ------------------------------------------------------------------------
NewFetcher(owner) ==
  [owner |-> owner, running |-> TRUE, listening |-> TRUE,
   phase |-> "directory", coinList |-> << >>, i |-> 0]

AtCapacityOffByOne == Cardinality(DOMAIN sseConnections) > MAX_SSE_CONNECTIONS

\* The global cap check of the route handler.
AtCapacity == Cardinality(DOMAIN sseConnections) >= MAX_SSE_CONNECTIONS

ReplayNothing(cache) == << >>

\* The cached records written to a new connection, in Object.values order.
Replay(cache) == ObjectValues(cache)

CacheWarmNever(cache) == FALSE

\* Object.keys(coinsCache).length > 0: the handler replays, and creates no
\* fetcher.
CacheWarm(cache) == DOMAIN cache # {}

\* The route handler, from the global cap check to the keep-alive timer.
StreamHandler(ip) ==
  IF AtCapacity
  THEN /\ lastResponse' = Response("stream", 503)
       /\ UNCHANGED << cacheVars, regVars, connectionIdCounter,
                       sseConnectionsPerIP, requests >>
  ELSE LET connectionId == connectionIdCounter + 1
           warm == CacheWarm(coinsCache)
           f == IF warm THEN 0 ELSE Len(fetchers) + 1
       IN  /\ connectionIdCounter' = connectionId
           /\ sseConnectionsPerIP' = [sseConnectionsPerIP EXCEPT ![ip] = @ + 1]
           /\ timeoutTimers' = timeoutTimers \cup {connectionId}
           /\ sseConnections' =
                (connectionId :> [ip |-> ip, fetcher |-> f, startTime |-> now])
                  @@ sseConnections
           /\ sent' = (connectionId :> Replay(coinsCache)) @@ sent
           /\ fetchers' = IF warm THEN fetchers
                          ELSE Append(fetchers, NewFetcher(connectionId))
           /\ requests' = (connectionId :> [ip |-> ip, state |-> "open"]) @@ requests
           /\ keepAliveTimers' = keepAliveTimers \cup {connectionId}
           /\ lastResponse' = Response("stream", 200)
           /\ UNCHANGED << cacheVars, ended >>

\* One GET /api/stream request from ip: sseConnectionLimiter (the per-IP
\* check), the client_id validation and the route handler.  Between the
\* check and the handler only promise continuations of the validator run, so
\* no other request or event is dispatched in between.
StreamRequest(ip, valid) ==
  /\ connectionIdCounter < connLimit
  /\ IF sseConnectionsPerIP[ip] >= MAX_SSE_PER_IP
     THEN /\ lastResponse' = Response("stream", 429)
          /\ UNCHANGED << cacheVars, regVars, connectionIdCounter,
                          sseConnectionsPerIP, requests >>
     ELSE IF ~valid
     THEN /\ lastResponse' = Response("stream", 400)
          /\ UNCHANGED << cacheVars, regVars, connectionIdCounter,
                          sseConnectionsPerIP, requests >>
     ELSE StreamHandler(ip)
  /\ UNCHANGED << schedVars, detailVars, connBase, connLimit, unitVars, shutdownReturned, breakerVars,
                  rateVars, now >>

Decrement(ip) ==
  sseConnectionsPerIP' =
    [sseConnectionsPerIP EXCEPT ![ip] = IF @ > 0 THEN @ - 1 ELSE @]

\* req.on('close')
ReqClose(id) ==
  /\ id \in EventIds
  /\ requests[id].state \in { "open", "errored" }
  /\ requests' = [requests EXCEPT ![id].state = "closed"]
  /\ Commit(cleanupConnection(Hub, id))
  /\ Decrement(requests[id].ip)
  /\ Quiet
  /\ UNCHANGED << schedVars, connectionIdCounter, detailVars, connBase,
                  connLimit, unitVars, shutdownReturned, breakerVars, rateVars, now >>

\* req.on('error'); the stream emits 'close' afterwards.
ReqError(id) ==
  /\ id \in EventIds
  /\ requests[id].state = "open"
  /\ requests' = [requests EXCEPT ![id].state = "errored"]
  /\ Commit(cleanupConnection(Hub, id))
  /\ Decrement(requests[id].ip)
  /\ Quiet
  /\ UNCHANGED << schedVars, connectionIdCounter, detailVars, connBase,
                  connLimit, unitVars, shutdownReturned, breakerVars, rateVars, now >>

\* The 5-minute timeout of a connection fires.
SseTimeout(id) ==
  /\ id \in EventIds
  /\ id \in timeoutTimers
  /\ Commit(cleanupConnection([Hub EXCEPT !.tt = @ \ {id}], id))
  /\ Quiet
  /\ UNCHANGED << schedVars, admVars, detailVars, connBase, connLimit, unitVars, shutdownReturned, breakerVars,
                  rateVars, now >>

\* The keep-alive interval of a connection fires; ok = the write succeeds.
KeepAlive(id, ok) ==
  /\ id \in EventIds
  /\ id \in keepAliveTimers
  /\ IF ok
     THEN /\ lastResponse' = Ping(id)
          /\ UNCHANGED << cacheVars, regVars >>
     ELSE /\ lastResponse' = NoResponse
          /\ Commit(cleanupConnection([Hub EXCEPT !.ka = @ \ {id}], id))
  /\ UNCHANGED << schedVars, connectionIdCounter, sseConnectionsPerIP,
                  requests, detailVars, connBase, connLimit, unitVars, shutdownReturned,
                  breakerVars, rateVars, now >>

shutdown ==
  /\ Commit(CleanupEach(Hub, DOMAIN sseConnections))
  /\ saveInterval' = FALSE
  /\ shutdownReturned' = TRUE
  /\ Quiet
  /\ UNCHANGED << previousCache, initPc, cyclesInFlight, cyclesStarted, cyclesPending,
                  persisted, admVars, detailVars, connBase, connLimit, unitVars, breakerVars,
                  rateVars, now >>

\* ------------------------------------------------------------------------
\* BithumbFetcher.start(), the streaming run a stream handler begins
\* ------------------------------------------------------------------------
\* The run loop ends: 'complete' or 'error' is emitted (both listeners only
\* log) and the finally block clears running; the locals are gone.
Finish(fe, f) ==
  [fe EXCEPT ![f].running = FALSE, ![f].phase = "done",
             ![f].coinList = << >>, ![f].i = 0]

\* The directory call of start() settles.  outcome: "error" (the call
\* rejects), "nolist" (no coinList in the response) or "ok" with coinList.
FetcherDirectory(f, outcome, coinList) ==
  /\ f \in 1..Len(fetchers)
  /\ fetchers[f].phase = "directory"
  /\ IF outcome = "ok" /\ fetchers[f].running
     THEN /\ fetchers' = [fetchers EXCEPT ![f].phase = "batch",
                                          ![f].coinList = coinList, ![f].i = 0]
     ELSE /\ fetchers' = Finish(fetchers, f)
  /\ lastResponse' = NoResponse
  /\ UNCHANGED << cacheVars, sseConnections, timeoutTimers, keepAliveTimers,
                  sent, ended, schedVars, admVars, detailVars, connBase, connLimit, unitVars, shutdownReturned,
                  breakerVars, rateVars, now >>

BatchOf(fr) ==
  SubSeq(fr.coinList, fr.i + 1, Min(fr.i + batchSize, Len(fr.coinList)))

\* The detail fetches of the current batch have settled: their records are
\* emitted in order, then the loop goes on to the next batch or ends.
\* results: the record of each detail fetch; failing: the subscribers whose
\* response.write throws.
FetcherBatch(f, results, failing) ==
  /\ f \in 1..Len(fetchers)
  /\ fetchers[f].phase = "batch"
  /\ LET fr == fetchers[f]
         batch == BatchOf(fr)
         H == EmitAll(Hub, f, results, failing, now)
         next == fr.i + batchSize
         more == next < Len(fr.coinList) /\ H.fe[f].running
     IN  /\ DOMAIN results = DOMAIN batch
         /\ \A k \in DOMAIN batch : results[k] \in Details(batch[k])
         /\ failing \subseteq (DOMAIN sseConnections \cap EventIds)
         /\ Commit([H EXCEPT !.fe = IF more THEN [@ EXCEPT ![f].i = next]
                                    ELSE Finish(@, f)])
         /\ lastResponse' = IF fr.listening /\ results # << >>
                            THEN Publish(f, failing) ELSE NoResponse
  /\ UNCHANGED << schedVars, admVars, detailVars, connBase, connLimit, unitVars, shutdownReturned, breakerVars,
                  rateVars, now >>

\* ------------------------------------------------------------------------
\* GET /api/coin/:symbol (with a valid symbol)
\* ------------------------------------------------------------------------
DetailRequest(symbol) ==
  /\ detailsStarted < MaxDetails
  /\ detailsStarted' = detailsStarted + 1
  /\ IF symbol \notin DOMAIN coinsCache
     THEN /\ lastResponse' = Response("detail", 404)
          /\ UNCHANGED detailsInFlight
     ELSE /\ lastResponse' = NoResponse
          /\ detailsInFlight' = [detailsInFlight EXCEPT !.price = @ + 1]
  /\ UNCHANGED << cacheVars, regVars, schedVars, admVars, connBase, connLimit, unitVars, shutdownReturned,
                  breakerVars, rateVars, now >>

\* priceFetcher settles: on success the candlestick call is made.
DetailPrice(ok) ==
  /\ detailsInFlight.price > 0
  /\ IF ok
     THEN /\ detailsInFlight' = [price |-> detailsInFlight.price - 1,
                                 candle |-> detailsInFlight.candle + 1]
          /\ lastResponse' = NoResponse
     ELSE /\ detailsInFlight' = [detailsInFlight EXCEPT !.price = @ - 1]
          /\ lastResponse' = Response("detail", 500)
  /\ UNCHANGED << cacheVars, regVars, schedVars, admVars, detailsStarted,
                  connBase, connLimit, unitVars, shutdownReturned, breakerVars, rateVars, now >>

\* The candlestick call settles and the response is sent.
DetailCandle(ok) ==
  /\ detailsInFlight.candle > 0
  /\ detailsInFlight' = [detailsInFlight EXCEPT !.candle = @ - 1]
  /\ lastResponse' = Response("detail", IF ok THEN 200 ELSE 500)
  /\ UNCHANGED << cacheVars, regVars, schedVars, admVars, detailsStarted,
                  connBase, connLimit, unitVars, shutdownReturned, breakerVars, rateVars, now >>

\* ------------------------------------------------------------------------
\* Time
\* ------------------------------------------------------------------------
Due(timers) == { timers[k].due : k \in DOMAIN timers }

TimeoutDueLate(id) == sseConnections[id].startTime + 2 * SSE_TIMEOUT

\* When the timeout timer of connection id fires.
TimeoutDue(id) == sseConnections[id].startTime + SSE_TIMEOUT

\* The due times of all timers that are set.
TimerDues ==
  Due(breakerTimers) \cup Due(blacklistTimers)
    \cup { TimeoutDue(id) : id \in timeoutTimers \cap DOMAIN sseConnections }

\* d milliseconds pass.  A timer runs when it is due, before time moves on.
AdvanceTime(d, horizon) ==
  /\ now + d <= horizon
  /\ \A due \in TimerDues : now + d <= due
  /\ now' = now + d
  /\ Quiet
  /\ UNCHANGED << hubVars, breakerVars, rateVars >>

\* Nothing happens until the next timer is due.
AwaitTimer ==
  LET dues == TimerDues
  IN  /\ dues # {}
      /\ \A due \in dues : now < due
      /\ now' = CHOOSE due \in dues : \A other \in dues : due <= other
      /\ Quiet
      /\ UNCHANGED << hubVars, breakerVars, rateVars >>

\* The timeout timer of connection id fires when it is due.
SseTimeoutDue(id) ==
  /\ id \in timeoutTimers \cap DOMAIN sseConnections
  /\ now >= TimeoutDue(id)
  /\ SseTimeout(id)

\* ------------------------------------------------------------------------
\* Circuit breaker
\* ------------------------------------------------------------------------
Breaker == [state |-> circuitBreakerState, count |-> failureCount,
            timers |-> breakerTimers]

checkCircuitBreaker(B) == B.state # "open"

recordSuccess(B) ==
  [B EXCEPT !.count = 0,
            !.state = IF B.state = "half-open" THEN "closed" ELSE @]

recordFailure(B, t) ==
  IF B.count + 1 >= FAILURE_THRESHOLD
  THEN [state |-> "open", count |-> B.count + 1,
        timers |-> Append(B.timers, [due |-> t + CIRCUIT_RESET_TIMEOUT])]
  ELSE [B EXCEPT !.count = @ + 1]

\* The messages an error reaching the global error handler can carry, by
\* what the handler looks for in them.
ErrorMessages == { "ETIMEDOUT", "ECONNREFUSED", "other" }

\* The global error handler.
ErrorHandler(message) ==
  /\ message \in { "ETIMEDOUT", "ECONNREFUSED" } => failureCount < MaxFailures
  /\ LET B == IF message \in { "ETIMEDOUT", "ECONNREFUSED" }
              THEN recordFailure(Breaker, now) ELSE Breaker
     IN  /\ circuitBreakerState' = B.state
         /\ failureCount' = B.count
         /\ breakerTimers' = B.timers
         /\ lastOpened' = IF circuitBreakerState # "open" /\ B.state = "open"
                          THEN now ELSE lastOpened
  /\ lastResponse' = Response("error", 500)
  /\ UNCHANGED << hubVars, rateVars, now >>

\* A timer set by recordFailure fires.
BreakerTimer ==
  /\ breakerTimers # << >>
  /\ Head(breakerTimers).due <= now
  /\ circuitBreakerState' = "half-open"
  /\ breakerTimers' = Tail(breakerTimers)
  /\ Quiet
  /\ UNCHANGED << hubVars, failureCount, lastOpened, rateVars, now >>

\* ------------------------------------------------------------------------
\* IP blacklist / per-second rate middleware
\* ------------------------------------------------------------------------
\* parseInt of one ':'-separated group of an address; << >> stands for NaN.
ParseIntGroup(g) ==
  CASE g = "2001" -> << 2001 >>
    [] g = "4860" -> << 4860 >>
    [] g = "1" -> << 1 >>
    [] OTHER -> << >>

\* const [, ts] = k.split(':'); parseInt(ts), for the key `${ip}:${second}`.
KeyTimestamp(k) ==
  IF Len(k.ip) = 1 THEN << k.second >> ELSE ParseIntGroup(k.ip[2])

CleanOld(counts, second) ==
  LET cutoff == second - CleanupAge
      stale == { k \in DOMAIN counts :
                   KeyTimestamp(k) # << >> /\ KeyTimestamp(k)[1] < cutoff }
  IN  [k \in DOMAIN counts \ stale |-> counts[k]]

\* The first middleware with the per-second count taken before the
\* blacklist is looked at.
RequestCountedFirst(ip, clean) ==
  /\ requestsSeen < MaxRequests
  /\ requestsSeen' = requestsSeen + 1
  /\ LET second == EpochSeconds + (now \div 1000)
         key == [ip |-> ip, second |-> second]
         count == IF key \in DOMAIN requestCounts THEN requestCounts[key] ELSE 0
     IN  /\ arrivals' = IF ip # arrivals.ip THEN arrivals
                         ELSE IF arrivals.second = second
                         THEN [arrivals EXCEPT !.n = @ + 1]
                         ELSE [arrivals EXCEPT !.second = second, !.n = 1]
         /\ requestCounts' = (key :> count + 1) @@ requestCounts
         /\ IF ip \in blacklistedIPs
            THEN /\ lastResponse' = Response("request", 403)
                 /\ UNCHANGED << blacklistedIPs, blacklistTimers >>
            ELSE IF count >= MAX_REQUESTS_PER_SECOND
            THEN /\ blacklistedIPs' = blacklistedIPs \cup {ip}
                 /\ blacklistTimers' =
                      Append(blacklistTimers, [ip |-> ip, due |-> now + BLACKLIST_DURATION])
                 /\ lastResponse' = Response("request", 429)
            ELSE /\ lastResponse' = NoResponse
                 /\ UNCHANGED << blacklistedIPs, blacklistTimers >>
  /\ UNCHANGED << hubVars, breakerVars, now >>

\* One request from ip enters the first middleware; clean = the 1% draw of
\* Math.random() that triggers the pruning of old counters.
Request(ip, clean) ==
  /\ requestsSeen < MaxRequests
  /\ requestsSeen' = requestsSeen + 1
  /\ LET second == EpochSeconds + (now \div 1000)
         key == [ip |-> ip, second |-> second]
         count == IF key \in DOMAIN requestCounts THEN requestCounts[key] ELSE 0
     IN  /\ arrivals' = IF ip # arrivals.ip THEN arrivals
                         ELSE IF arrivals.second = second
                         THEN [arrivals EXCEPT !.n = @ + 1]
                         ELSE [arrivals EXCEPT !.second = second, !.n = 1]
         /\ IF ip \in blacklistedIPs
            THEN /\ lastResponse' = Response("request", 403)
                 /\ UNCHANGED << requestCounts, blacklistedIPs, blacklistTimers >>
            ELSE IF count >= MAX_REQUESTS_PER_SECOND
            THEN /\ blacklistedIPs' = blacklistedIPs \cup {ip}
                 /\ blacklistTimers' =
                      Append(blacklistTimers, [ip |-> ip, due |-> now + BLACKLIST_DURATION])
                 /\ lastResponse' = Response("request", 429)
                 /\ UNCHANGED requestCounts
            ELSE /\ requestCounts' =
                      LET counted == (key :> count + 1) @@ requestCounts
                      IN  IF clean THEN CleanOld(counted, second) ELSE counted
                 /\ lastResponse' = NoResponse
                 /\ UNCHANGED << blacklistedIPs, blacklistTimers >>
  /\ UNCHANGED << hubVars, breakerVars, now >>

\* The timer set with a blacklisting fires.
BlacklistTimer ==
  /\ blacklistTimers # << >>
  /\ Head(blacklistTimers).due <= now
  /\ blacklistedIPs' = blacklistedIPs \ { Head(blacklistTimers).ip }
  /\ blacklistTimers' = Tail(blacklistTimers)
  /\ Quiet
  /\ UNCHANGED << hubVars, breakerVars, requestCounts, arrivals, requestsSeen, now >>

\* ------------------------------------------------------------------------
\* Specification of the pipeline in service: scheduler, stream hub, fetchers
\* ------------------------------------------------------------------------
ResultSeqs == UNION { [1..n -> UNION { Details(sym) : sym \in Symbols }] : n \in 1..2 }

\* Teardown events of the environment.
TeardownNext ==
  \/ \E id \in 1..connectionIdCounter : ReqClose(id)
  \/ \E id \in 1..connectionIdCounter : ReqError(id)
  \/ \E id \in 1..connectionIdCounter : SseTimeout(id)
  \/ \E id \in 1..connectionIdCounter, ok \in BOOLEAN : KeepAlive(id, ok)

\* The clients of the pipeline specification connect from one address.
HubIPs == { <<"10.0.0.1">> }

Next ==
  \/ \E ip \in HubIPs, valid \in BOOLEAN : StreamRequest(ip, valid)
  \/ TeardownNext
  \/ PeriodicTick
  \/ \E updatedData \in FetchResults : PeriodicFetched(updatedData)
  \/ \E f \in 1..Len(fetchers), outcome \in { "ok", "nolist", "error" },
        coinList \in Directories : FetcherDirectory(f, outcome, coinList)
  \/ \E f \in 1..Len(fetchers), results \in ResultSeqs,
        failing \in SUBSET EventIds : FetcherBatch(f, results, failing)

Spec == Init /\ [][Next]_vars

\* The registry one short of its capacity: subscribes, teardowns and
\* shutdown.
CapNext ==
  \/ \E ip \in IPs, valid \in BOOLEAN : StreamRequest(ip, valid)
  \/ TeardownNext
  \/ shutdown

SpecCap == InitPrefilled /\ [][CapNext]_vars

\* ------------------------------------------------------------------------
\* Specification of the circuit breaker next to the upstream callers
\* ------------------------------------------------------------------------
BreakerDelays == { 30000 }

BreakerNext ==
  \/ \E message \in ErrorMessages : ErrorHandler(message)
  \/ BreakerTimer
  \/ \E d \in BreakerDelays : AdvanceTime(d, BreakerHorizon)
  \/ PeriodicTick
  \/ \E updatedData \in FetchResults : PeriodicFetched(updatedData)
  \/ \E symbol \in Symbols : DetailRequest(symbol)
  \/ \E ok \in BOOLEAN : DetailPrice(ok)
  \/ \E ok \in BOOLEAN : DetailCandle(ok)

InitBreaker == InitServing(Snap1, 0, << "10.0.0.1" >>)

SpecBreaker == InitBreaker /\ [][BreakerNext]_vars

\* ------------------------------------------------------------------------
\* Specification of the first admission step
\* ------------------------------------------------------------------------
RateDelays == { 1000 }

RateNext ==
  \/ \E clean \in BOOLEAN : Request(arrivals.ip, clean)
  \/ BlacklistTimer
  \/ \E d \in RateDelays : AdvanceTime(d, RateHorizon)
  \/ AwaitTimer

InitRate == \E client \in IPs : InitServing(Snap1, 0, client)

SpecRate == InitRate /\ [][RateNext]_vars

\* ------------------------------------------------------------------------
\* Specification of stream admission and teardown for one client address
\* ------------------------------------------------------------------------
AdmissionNext ==
  \/ \E ip \in HubIPs, valid \in BOOLEAN : StreamRequest(ip, valid)
  \/ TeardownNext

InitAdmitting ==
  \E ip \in HubIPs : InitServing(Snap1, MaxAdmissions, ip)

SpecAdmission == InitAdmitting /\ [][AdmissionNext]_vars

\* ------------------------------------------------------------------------
\* Specification of the teardown paths on a cold cache: every subscriber
\* owns a fetcher
\* ------------------------------------------------------------------------
TeardownSpecNext ==
  \/ \E ip \in HubIPs, valid \in BOOLEAN : StreamRequest(ip, valid)
  \/ TeardownNext
  \/ shutdown
  \/ \E f \in 1..Len(fetchers), outcome \in { "ok", "nolist", "error" },
        coinList \in Directories : FetcherDirectory(f, outcome, coinList)
  \/ \E f \in 1..Len(fetchers), results \in ResultSeqs,
        failing \in SUBSET EventIds : FetcherBatch(f, results, failing)

InitTeardown ==
  \E ip \in HubIPs : InitServing(EmptySnapshot, MaxNewConnections, ip)

SpecTeardown == InitTeardown /\ [][TeardownSpecNext]_vars

\* ------------------------------------------------------------------------
\* Specification of the connection timeout, with time: pings succeed, and
\* the timeout timer fires when it is due
\* ------------------------------------------------------------------------
TimeoutDelays == { 100000 }

TimeoutNext ==
  \/ \E ip \in HubIPs, valid \in BOOLEAN : StreamRequest(ip, valid)
  \/ \E id \in 1..connectionIdCounter : ReqClose(id)
  \/ \E id \in 1..connectionIdCounter : ReqError(id)
  \/ \E id \in 1..connectionIdCounter : KeepAlive(id, TRUE)
  \/ \E id \in 1..connectionIdCounter : SseTimeoutDue(id)
  \/ \E d \in TimeoutDelays : AdvanceTime(d, TimeoutHorizon)

InitTimeout ==
  \E ip \in HubIPs : InitServing(Snap1, MaxNewConnections, ip)

SpecTimeout == InitTimeout /\ [][TimeoutNext]_vars

\* ------------------------------------------------------------------------
\* Steps, as they show in the state
\* ------------------------------------------------------------------------
IsPrefix(s, t) == Len(s) <= Len(t) /\ SubSeq(t, 1, Len(s)) = s

RegisteredFrom(ip) == { id \in Registered : sseConnections[id].ip = ip }

\* A GET /api/stream request was answered.
StreamAnswered == lastResponse'.kind = "stream"

\* A stream request was accepted.
Accepted == connectionIdCounter' = connectionIdCounter + 1

\* A periodic refresh cycle ended with a non-empty result.
RefreshApplied ==
  cyclesInFlight' < cyclesInFlight /\ Len(persisted') > Len(persisted)

Changed(s) ==
  s \in DOMAIN coinsCache' /\ (s \in DOMAIN coinsCache => coinsCache'[s] # coinsCache[s])

\* Connection id was sent record in this step.
Pushed(id, record) ==
  /\ id \in DOMAIN sent'
  /\ \E k \in (Len(sent[id]) + 1)..Len(sent'[id]) : sent'[id][k] = record

\* The records fetcher f published in this step: the ones of its batch,
\* up to the one during which its listener was detached.
PublishedBy(f) ==
  LET batch == BatchOf(fetchers[f])
      n == IF fetchers[f].owner \in Registered' THEN Len(batch)
           ELSE Min(1, Len(batch))
  IN  [k \in 1..n |-> coinsCache'[batch[k]]]

UpstreamInFlight ==
  cyclesInFlight + detailsInFlight.price + detailsInFlight.candle
    + Cardinality({ f \in DOMAIN fetchers : fetchers[f].running })

\* An upstream network call begins in this step.
UpstreamStarted ==
  \/ cyclesInFlight' > cyclesInFlight
  \/ detailsInFlight'.price > detailsInFlight.price
  \/ detailsInFlight'.candle > detailsInFlight.candle
  \/ Len(fetchers') > Len(fetchers)

\* An upstream call ended well in this step.
UpstreamSucceeded ==
  \/ Len(persisted') > Len(persisted)
  \/ detailsInFlight'.candle > detailsInFlight.candle
  \/ lastResponse' = Response("detail", 200)

FailureRecorded == failureCount' > failureCount

C2_PerIpCap ==
  \A ip \in DOMAIN sseConnectionsPerIP :
    Cardinality(RegisteredFrom(ip)) <= MAX_SSE_PER_IP

\* ------------------------------------------------------------------------
\* Refresh and publish (Spec)
\* ------------------------------------------------------------------------
\* C3: a periodic refresh cycle that ends with a non-empty result pushes
\* each changed record to every registered subscriber.
C3_RefreshPushesChanges ==
  [][ RefreshApplied =>
        \A id \in Registered : \A s \in Symbols :
          Changed(s) => Pushed(id, coinsCache'[s])
    ]_vars

\* C9: an accepted subscriber is sent exactly one event per record of the
\* snapshot at accept time and nothing else in that step; what a subscriber
\* was sent is only ever extended; and a subscriber registered before and
\* after a publish is sent exactly the published records in that step.
C9_ReplayThenUpdates ==
  [][ /\ Accepted =>
           LET id == connectionIdCounter'
           IN  /\ id \in Registered'
               /\ Len(sent'[id]) = Cardinality(DOMAIN coinsCache)
               /\ \A s \in DOMAIN coinsCache :
                    Cardinality({ k \in DOMAIN sent'[id] :
                                    sent'[id][k] = coinsCache[s] }) = 1
      /\ \A id \in DOMAIN sent :
           id \in DOMAIN sent' /\ IsPrefix(sent[id], sent'[id])
      /\ lastResponse'.kind = "publish" =>
           \A id \in Registered \cap Registered' :
             sent'[id] = sent[id] \o PublishedBy(lastResponse'.conn)
    ]_vars

\* A subscriber that joined a warm cache holds its replay and, after it,
\* the records of a publish that has just happened.
C9_Witness ==
  /\ lastResponse.kind = "publish"
  /\ \E id \in Registered :
       /\ sseConnections[id].fetcher = 0
       /\ Len(sent[id]) > Cardinality(DOMAIN coinsCache)
       /\ sent[id][1].symbol = SymbolOrder[1]

\* C10: in a publish step the subscribers torn down are exactly those whose
\* write threw; they are fully torn down; every other subscriber registered
\* before the step is sent the record during which the writes threw; and the
\* publish goes through: the record is in the cache and the fetcher run goes
\* on or ends normally.
C10_WriteFailureIsolated ==
  [][ lastResponse'.kind = "publish" =>
        LET f == lastResponse'.conn
            failed == lastResponse'.failed
            first == coinsCache'[BatchOf(fetchers[f])[1]]
        IN  /\ Registered' = Registered \ failed
            /\ failed \subseteq ended'
            /\ failed \cap (timeoutTimers' \cup keepAliveTimers') = {}
            /\ \A id \in Registered \ failed :
                 /\ Len(sent'[id]) > Len(sent[id])
                 /\ sent'[id][Len(sent[id]) + 1] = first
            /\ fetchers'[f].phase \in { "batch", "done" }
    ]_vars

\* A publish has just torn down a subscriber whose write threw while
\* another subscriber stays registered with the record.
C10_Witness ==
  /\ lastResponse.kind = "publish"
  /\ lastResponse.failed # {}
  /\ \E id \in Registered : sent[id] # << >>

\* ------------------------------------------------------------------------
\* Circuit breaker (SpecBreaker)
\* ------------------------------------------------------------------------
\* C4: an upstream success while the breaker is closed resets the failure
\* counter to 0, and the breaker goes from closed to open only with the
\* failure that brings the counter to FAILURE_THRESHOLD.
C4_OpensOnConsecutiveFailures ==
  [][ /\ (circuitBreakerState = "closed" /\ UpstreamSucceeded) => failureCount' = 0
      /\ (circuitBreakerState = "closed" /\ circuitBreakerState' = "open") =>
           (FailureRecorded /\ failureCount' = FAILURE_THRESHOLD)
    ]_vars

\* C5: while the breaker is open no upstream call is started.
C5_OpenStartsNoCall ==
  [][ circuitBreakerState = "open" => ~UpstreamStarted ]_vars

\* C6: the breaker becomes half-open only CIRCUIT_RESET_TIMEOUT or more
\* after its latest change to open.
C6_FullCoolDown ==
  [][ (circuitBreakerState # "half-open" /\ circuitBreakerState' = "half-open") =>
        now >= lastOpened + CIRCUIT_RESET_TIMEOUT
    ]_vars

\* C7: while the breaker is half-open an upstream call is started only when
\* none is in flight; an upstream success closes the breaker; a recorded
\* failure re-opens it with the failure counter restarted.
C7_HalfOpenProbe ==
  [][ circuitBreakerState = "half-open" =>
        /\ UpstreamStarted => UpstreamInFlight = 0
        /\ UpstreamSucceeded => circuitBreakerState' = "closed"
        /\ FailureRecorded => (circuitBreakerState' = "open" /\ failureCount' <= 1)
    ]_vars

\* ------------------------------------------------------------------------
\* Per-second rate rule (SpecRate)
\* ------------------------------------------------------------------------
\* C8: a client that sent more than MAX_REQUESTS_PER_SECOND requests in one
\* one-second bucket is on the blacklist for the BLACKLIST_DURATION after
\* that bucket, and an address stays on the blacklist until the timer of its
\* blacklisting is due.
C8_BurstBlacklisted ==
  /\ ( /\ arrivals.n > MAX_REQUESTS_PER_SECOND
       /\ now < (arrivals.second - EpochSeconds) * 1000 + BLACKLIST_DURATION )
       => arrivals.ip \in blacklistedIPs
  /\ \A k \in DOMAIN blacklistTimers :
       now < blacklistTimers[k].due => blacklistTimers[k].ip \in blacklistedIPs

\* ------------------------------------------------------------------------
\* Teardown (SpecTeardown, SpecTimeout)
\* ------------------------------------------------------------------------
\* C11: cleanupConnection for an id that is not registered (torn down
\* before, or never issued) changes nothing, and a second call for the same
\* id leaves the state of the first call.
C11_CleanupIdempotent ==
  \A id \in 0..(connectionIdCounter + 1) :
    /\ id \notin Registered => cleanupConnection(Hub, id) = Hub
    /\ cleanupConnection(cleanupConnection(Hub, id), id) = cleanupConnection(Hub, id)

\* A connection was torn down by its request's 'error' event and the
\* 'close' event, which tears it down again, is still to come.
C11_Witness ==
  \E id \in DOMAIN requests :
    /\ requests[id].state = "errored"
    /\ id \notin Registered
    /\ id \in ended

\* C12: once a subscriber is torn down, by whatever trigger, it is not in
\* the registry, its timeout and keep-alive timers are not armed, every
\* fetcher it owns is stopped with its listeners removed, and nothing is
\* written to it: no data event (in the step that tears it down or later)
\* and no ping.
C12_TornDownStaysSilent ==
  [][ \A id \in ended' :
        /\ id \notin Registered'
        /\ id \notin timeoutTimers'
        /\ id \notin keepAliveTimers'
        /\ \A f \in DOMAIN fetchers' :
             fetchers'[f].owner = id =>
               (~fetchers'[f].running /\ ~fetchers'[f].listening)
        /\ sent'[id] = sent[id]
        /\ lastResponse' # Ping(id)
    ]_vars

\* A subscriber that owned a fetcher is torn down, and a publish of another
\* fetcher has just reached a subscriber that is still registered.
C12_Witness ==
  /\ lastResponse.kind = "publish"
  /\ Registered # {}
  /\ \E id \in ended : \E f \in DOMAIN fetchers : fetchers[f].owner = id

\* C13: no subscriber is registered later than SSE_TIMEOUT after it was
\* accepted.
C13_HardTimeout ==
  \A id \in Registered : now <= sseConnections[id].startTime + SSE_TIMEOUT

\* A subscriber that was pinged and never disconnected has been torn down,
\* SSE_TIMEOUT or more into the run.
C13_Witness ==
  /\ now >= SSE_TIMEOUT
  /\ \E id \in ended : requests[id].state = "open"

\* ------------------------------------------------------------------------
\* Streaming fetchers of the hub (SpecTeardown)
\* ------------------------------------------------------------------------
\* C14: at most one streaming fetch is running at any time.
C14_SingleStreamingFetch ==
  Cardinality({ f \in DOMAIN fetchers : fetchers[f].running }) <= 1

UnitAssets == 12

\* One entry of the directory's coinList.
UnitCoin(k) ==
  [coinSymbol |-> "S" \o ToString(k), coinType |-> "C" \o ToString(k),
   coinName |-> "KR" \o ToString(k), coinNameEn |-> "EN" \o ToString(k)]
UnitCoinList == [k \in 1..UnitAssets |-> UnitCoin(k)]

\* What one upstream call settles to (Promise.allSettled): rejected, or
\* fulfilled with a body whose data member is absent (<< >>) or present.
Rejected == [status |-> "rejected", data |-> << >>]
Fulfilled(payload) == [status |-> "fulfilled", data |-> payload]
HasData(settled) == settled.status = "fulfilled" /\ settled.data # << >>

CirculationOutcomes ==
  {Rejected, Fulfilled(<< >>),
   Fulfilled(<< [accumulationDepositAmt |-> "1000", depositChangeRate |-> "0.5"] >>)}
HoldersOutcomes ==
  {Rejected, Fulfilled(<< >>), Fulfilled(<< [numberOfHolders |-> "250"] >>)}
HolderShareOutcomes ==
  {Rejected, Fulfilled(<< >>), Fulfilled(<< [holdingPercentage |-> "61.5"] >>)}
TraderShareOutcomes ==
  {Rejected, Fulfilled(<< >>), Fulfilled(<< [tradingPercentage |-> "12.25"] >>)}

\* The record fetchCoinDetails builds: identity from the directory entry,
\* each metric from its own sub-call, null where that call gave nothing.
CoinDetails(coin, circulation, holders, holderShare, traderShare) ==
  [symbol |-> coin.coinSymbol,
   code |-> coin.coinType,
   name_kr |-> coin.coinName,
   name_en |-> coin.coinNameEn,
   circulation |-> IF HasData(circulation)
                   THEN circulation.data[1].accumulationDepositAmt ELSE NULL,
   circulation_change |-> IF HasData(circulation)
                          THEN circulation.data[1].depositChangeRate ELSE NULL,
   holders |-> IF HasData(holders) THEN holders.data[1].numberOfHolders ELSE NULL,
   holder_influence |-> IF HasData(holderShare)
                        THEN holderShare.data[1].holdingPercentage ELSE NULL,
   trader_influence |-> IF HasData(traderShare)
                        THEN traderShare.data[1].tradingPercentage ELSE NULL]

\* A variant that awaits the four sub-calls together and so fails with the
\* first of them that fails.
fetchCoinDetailsFailFast(coin, circulation, holders, holderShare, traderShare) ==
  IF Rejected \in {circulation, holders, holderShare, traderShare}
  THEN [status |-> "rejected", value |-> << >>]
  ELSE [status |-> "fulfilled",
        value |-> << CoinDetails(coin, circulation, holders, holderShare,
                                 traderShare) >>]

\* fetchCoinDetails: what the returned promise settles to.
fetchCoinDetails(coin, circulation, holders, holderShare, traderShare) ==
  [status |-> "fulfilled",
   value |-> << CoinDetails(coin, circulation, holders, holderShare,
                            traderShare) >>]


\* The sub-call outcomes fetchAll's detail fetches are tested with: every
\* metric delivered, or none.
MetricsKinds == {"all", "none"}
DetailsOf(coin, metrics) ==
  IF metrics = "all"
  THEN CoinDetails(coin,
                   Fulfilled(<< [accumulationDepositAmt |-> "1000",
                                 depositChangeRate |-> "0.5"] >>),
                   Fulfilled(<< [numberOfHolders |-> "250"] >>),
                   Fulfilled(<< [holdingPercentage |-> "61.5"] >>),
                   Fulfilled(<< [tradingPercentage |-> "12.25"] >>))
  ELSE CoinDetails(coin, Rejected, Rejected, Rejected, Rejected)

\* A variant that drops a whole batch when one of its detail fetches failed.
BatchAllOrNothing(batch, failing) ==
  IF \E k \in DOMAIN batch : batch[k].coinSymbol \in failing THEN << >> ELSE batch

\* The entries of one batch whose wrapped detail fetch reported success; a
\* failed one is caught inside its own promise and only marks itself.
BatchSuccesses(batch, failing) ==
  SelectSeq(batch, LAMBDA coin : coin.coinSymbol \notin failing)

RECURSIVE PutAll(_, _, _)
PutAll(allCoins, coins, metrics) ==
  IF coins = << >> THEN allCoins
  ELSE PutAll(Put(allCoins, DetailsOf(Head(coins), metrics)), Tail(coins), metrics)

\* The batch loop of fetchAll from offset i on.
RECURSIVE FetchAllFrom(_, _, _, _, _)
FetchAllFrom(coinList, i, failing, metrics, allCoins) ==
  IF i >= Len(coinList) THEN allCoins
  ELSE FetchAllFrom(coinList, i + batchSize, failing, metrics,
                    PutAll(allCoins,
                           BatchSuccesses(SubSeq(coinList, i + 1,
                                                 Min(i + batchSize, Len(coinList))),
                                          failing),
                           metrics))

\* fetchAll: what the returned promise settles to, given what the directory
\* call settled to and the set of assets whose detail fetch throws.  The
\* catch around the whole body turns a failed directory call into {}.
fetchAll(directory, failing, metrics) ==
  IF directory.status = "rejected"
  THEN [status |-> "fulfilled", value |-> << EmptySnapshot >>]
  ELSE IF directory.data = << >>
  THEN [status |-> "fulfilled", value |-> << EmptySnapshot >>]
  ELSE [status |-> "fulfilled",
        value |-> << FetchAllFrom(directory.data[1], 0, failing, metrics,
                                  EmptySnapshot) >>]

\* Directories and failing assets the calls are drawn from: every prefix of
\* the directory, and failures on both sides of the first batch boundary.
CoinLists == { SubSeq(UnitCoinList, 1, n) : n \in 0..UnitAssets }
DirectoryOutcomes ==
  {Rejected, Fulfilled(<< >>)} \cup { Fulfilled(<< l >>) : l \in CoinLists }
FailingSets ==
  SUBSET { UnitCoin(1).coinSymbol, UnitCoin(batchSize).coinSymbol,
           UnitCoin(batchSize + 1).coinSymbol }

DetailCalls ==
  { [fn |-> "fetchCoinDetails", coin |-> UnitCoin(k), circulation |-> c,
     holders |-> h, holderShare |-> hs, traderShare |-> ts] :
      k \in {1, 2}, c \in CirculationOutcomes, h \in HoldersOutcomes,
      hs \in HolderShareOutcomes, ts \in TraderShareOutcomes }
FetchAllCalls ==
  { [fn |-> "fetchAll", directory |-> d, failing |-> f, metrics |-> m] :
      d \in DirectoryOutcomes, f \in FailingSets, m \in MetricsKinds }

serverVars == << cacheVars, regVars, schedVars, admVars, detailVars, connBase,
                connLimit, shutdownReturned, obsVars, breakerVars, rateVars,
                now >>

\* A call is pending with its upstream outcomes fixed; then it settles.
InitCalls ==
  /\ InitCreated
  /\ running = FALSE
  /\ runs = << >>
  /\ starts = 0
  /\ call \in DetailCalls \cup FetchAllCalls
  /\ returned = NotReturned

ReturnDetails ==
  /\ call.fn = "fetchCoinDetails"
  /\ returned = NotReturned
  /\ returned' = fetchCoinDetails(call.coin, call.circulation, call.holders,
                                  call.holderShare, call.traderShare)
  /\ UNCHANGED << serverVars, running, runs, starts, call >>

ReturnAll ==
  /\ call.fn = "fetchAll"
  /\ returned = NotReturned
  /\ returned' = fetchAll(call.directory, call.failing, call.metrics)
  /\ UNCHANGED << serverVars, running, runs, starts, call >>

CallsNext == ReturnDetails \/ ReturnAll

SpecCalls == InitCalls /\ [][CallsNext]_vars

\* The metric a sub-call delivers: its value when the call gave data, null
\* otherwise.
Delivered(settled, field) ==
  IF HasData(settled) THEN settled.data[1][field] ELSE NULL

\* C16: fetching one asset's details never fails as a whole: the call
\* fulfils with a record that carries the asset's identity from the
\* directory entry, and each metric comes from its own sub-call alone - its
\* value when that sub-call succeeded, null when it did not -
\* whatever the other three sub-calls did.
C16_DetailsNeverFail ==
  (call.fn = "fetchCoinDetails" /\ returned # NotReturned) =>
    /\ returned.status = "fulfilled"
    /\ LET d == returned.value[1] IN
         /\ d.symbol = call.coin.coinSymbol
         /\ d.code = call.coin.coinType
         /\ d.name_kr = call.coin.coinName
         /\ d.name_en = call.coin.coinNameEn
         /\ d.circulation = Delivered(call.circulation, "accumulationDepositAmt")
         /\ d.circulation_change = Delivered(call.circulation, "depositChangeRate")
         /\ d.holders = Delivered(call.holders, "numberOfHolders")
         /\ d.holder_influence = Delivered(call.holderShare, "holdingPercentage")
         /\ d.trader_influence = Delivered(call.traderShare, "tradingPercentage")

\* A call returned whose holders sub-call failed while the circulation
\* sub-call delivered: the record has the circulation and a null holders.
C16_Witness ==
  /\ call.fn = "fetchCoinDetails"
  /\ returned # NotReturned
  /\ call.holders = Rejected
  /\ HasData(call.circulation)
  /\ returned.status = "fulfilled"
  /\ returned.value[1].holders = NULL
  /\ returned.value[1].circulation = "1000"


\* The symbols of a directory.
SymbolsOf(coinList) == { coinList[k].coinSymbol : k \in DOMAIN coinList }

\* C17: fetchAll returns a snapshot holding exactly the directory's assets
\* whose detail fetch succeeded, each under its own symbol: an asset whose
\* detail fetch throws is left out and keeps no other asset, of its batch or
\* of a later one, from being included.
C17_FetchAllSkipsFailures ==
  (call.fn = "fetchAll" /\ HasData(call.directory) /\ returned # NotReturned) =>
    /\ returned.status = "fulfilled"
    /\ LET allCoins == returned.value[1] IN
         /\ DOMAIN allCoins = SymbolsOf(call.directory.data[1]) \ call.failing
         /\ \A k \in DOMAIN call.directory.data[1] :
              LET coin == call.directory.data[1][k] IN
                coin.coinSymbol \notin call.failing =>
                  allCoins[coin.coinSymbol] = DetailsOf(coin, call.metrics)

\* fetchAll returned for the full directory with one failing asset in each
\* batch: the other assets of both batches are in the snapshot.
C17_Witness ==
  /\ call.fn = "fetchAll"
  /\ HasData(call.directory)
  /\ Len(call.directory.data[1]) = UnitAssets
  /\ call.failing = { UnitCoin(1).coinSymbol, UnitCoin(batchSize + 1).coinSymbol }
  /\ returned # NotReturned
  /\ DOMAIN returned.value[1] = SymbolsOf(UnitCoinList) \ call.failing
  /\ Cardinality(DOMAIN returned.value[1]) = UnitAssets - 2


\* What fetchAll can settle to when its directory call succeeded.
SuccessfulReturns ==
  { fetchAll(d, f, m) : d \in DirectoryOutcomes \ {Rejected}, f \in FailingSets,
                        m \in MetricsKinds }

\* C18: when the directory call fails, fetchAll fails as a whole: the
\* caller gets an error outcome, one that no fetch with a successful
\* directory call can give, and no snapshot.
C18_DirectoryFailureFails ==
  (call.fn = "fetchAll" /\ call.directory = Rejected /\ returned # NotReturned) =>
    /\ returned.status = "rejected"
    /\ returned \notin SuccessfulReturns


\* ------------------------------------------------------------------------
\* BithumbFetcher.start / stop on one fetcher (SpecRun)
\* ------------------------------------------------------------------------
\* One invocation of start() that passed the running check: it awaits the
\* directory call ("directory"), then the detail fetches of the batch at
\* offset i ("batch"), until it has emitted 'complete' or 'error' ("done").
\* fetched counts its fetchCoinDetails calls, emitted its 'data' events,
\* failed the rejected fetches it logged; stopped records that stop() was called while it was in progress.
NewRun ==
  [phase |-> "directory", coinList |-> << >>, i |-> 0, fetched |-> 0,
   emitted |-> 0, failed |-> 0, outcome |-> "none", stopped |-> FALSE]

InProgress == { r \in DOMAIN runs : runs[r].phase # "done" }

\* start(): returns at once while this.running is set; otherwise sets it and
\* issues the directory call.
start ==
  /\ starts < MaxStarts
  /\ starts' = starts + 1
  /\ IF running
     THEN UNCHANGED << running, runs >>
     ELSE /\ running' = TRUE
          /\ runs' = Append(runs, NewRun)
  /\ UNCHANGED << serverVars, call, returned >>

\* stop(): clears this.running.
stop ==
  /\ running' = FALSE
  /\ runs' = [r \in DOMAIN runs |->
                IF r \in InProgress THEN [runs[r] EXCEPT !.stopped = TRUE]
                ELSE runs[r]]
  /\ UNCHANGED << serverVars, starts, call, returned >>

\* The head of the batch loop for a run at offset i: past the end of the
\* list or with this.running cleared the run emits 'complete' and its
\* finally block clears this.running; otherwise the detail fetches of the
\* next batch are issued.
LoopHead(run, i, isRunning) ==
  IF i >= Len(run.coinList) \/ ~isRunning
  THEN [run EXCEPT !.phase = "done", !.i = i, !.outcome = "complete"]
  ELSE [run EXCEPT !.phase = "batch", !.i = i,
                   !.fetched = @ + Min(batchSize, Len(run.coinList) - i)]

RunCoinLists == { << >>, UnitCoinList }

\* The directory call of run r settled.
RunDirectory(r, outcome, coinList) ==
  /\ r \in DOMAIN runs
  /\ runs[r].phase = "directory"
  /\ LET after ==
           IF outcome = "error"
           THEN [runs[r] EXCEPT !.phase = "done", !.outcome = "error"]
           ELSE IF outcome = "nolist"
           THEN [runs[r] EXCEPT !.phase = "done", !.outcome = "complete"]
           ELSE LoopHead([runs[r] EXCEPT !.coinList = coinList], 0, running)
     IN /\ runs' = [runs EXCEPT ![r] = after]
        /\ running' = IF after.phase = "done" THEN FALSE ELSE running
  /\ UNCHANGED << serverVars, starts, call, returned >>

\* The detail fetches of run r's batch settled, rejected of them rejected:
\* one 'data' event per fulfilled one, then the loop head again.
RunBatch(r, rejected) ==
  /\ r \in DOMAIN runs
  /\ runs[r].phase = "batch"
  /\ LET size == Min(batchSize, Len(runs[r].coinList) - runs[r].i)
         after == LoopHead([runs[r] EXCEPT !.emitted = @ + size - rejected,
                                           !.failed = @ + rejected],
                           runs[r].i + batchSize, running)
     IN /\ rejected <= size
        /\ runs' = [runs EXCEPT ![r] = after]
        /\ running' = IF after.phase = "done" THEN FALSE ELSE running
  /\ UNCHANGED << serverVars, starts, call, returned >>

RunNext ==
  \/ start
  \/ stop
  \/ \E r \in 1..MaxStarts, outcome \in {"ok", "nolist", "error"},
        coinList \in RunCoinLists : RunDirectory(r, outcome, coinList)
  \/ \E r \in 1..MaxStarts, rejected \in {0, 1} : RunBatch(r, rejected)

InitRun ==
  /\ InitCreated
  /\ UnitIdle

SpecRun == InitRun /\ [][RunNext]_vars

\* start() was called.
StartCalled == starts' = starts + 1

\* C19: a start() on a fetcher with a run still in progress does nothing:
\* it makes no directory call and begins no run loop.
C19_StartWhileRunningIsNoop ==
  [][(StartCalled /\ InProgress # {}) => (runs' = runs /\ running' = running)]_vars

\* C20: once stop() was called during a run, that run starts no further
\* batch of detail fetches; the fetches of the batch in flight complete and
\* their results are emitted (12 assets, stop() during the first batch:
\* exactly 10 detail fetches and 10 data events when none of them rejects).
C20_StopEndsBatches ==
  [][\A r \in DOMAIN runs :
       runs[r].stopped =>
         /\ runs'[r].fetched = runs[r].fetched
         /\ runs'[r].phase = "done" =>
              runs'[r].emitted + runs'[r].failed = runs'[r].fetched]_vars


\* ------------------------------------------------------------------------
\* Characters and the symbol format /^[A-Z0-9]{2,10}$/
\* ------------------------------------------------------------------------
UpperCase ==
  << "A", "B", "C", "D", "E", "F", "G", "H", "I", "J", "K", "L", "M",
     "N", "O", "P", "Q", "R", "S", "T", "U", "V", "W", "X", "Y", "Z" >>
LowerCase ==
  << "a", "b", "c", "d", "e", "f", "g", "h", "i", "j", "k", "l", "m",
     "n", "o", "p", "q", "r", "s", "t", "u", "v", "w", "x", "y", "z" >>
Digits == { "0", "1", "2", "3", "4", "5", "6", "7", "8", "9" }
UpperLetters == { UpperCase[k] : k \in DOMAIN UpperCase }

\* /^[A-Z0-9]{2,10}$/.test(value), value as its sequence of characters.
SymbolFormat(chars) ==
  /\ Len(chars) >= 2
  /\ Len(chars) <= 10
  /\ \A k \in DOMAIN chars : chars[k] \in UpperLetters \cup Digits

\* The characters of the asset symbols of the model.
CharsOf(sym) ==
  CASE sym = "BTC" -> << "B", "T", "C" >>
    [] sym = "ETH" -> << "E", "T", "H" >>
    [] OTHER -> << >>

\* ------------------------------------------------------------------------
\* GET /api/coins: the body the handler writes for a snapshot
\* ------------------------------------------------------------------------
\* JSON.stringify of a number: a number that is not finite is written null.
JsonNull == << >>
JsonNumber(x) == IF IsFinite(x) THEN x ELSE JsonNull

JsonChange(change) ==
  IF change = NoChange THEN NoChange
  ELSE << [absolute |-> JsonNumber(change[1].absolute),
           percent |-> change[1].percent] >>

\* One record as it is written: the change records through JSON, all other
\* fields of the model (strings and null) as they are.
JsonCoin(coin) ==
  IF "holders_change" \in DOMAIN coin
  THEN [coin EXCEPT !.holders_change = JsonChange(@),
                    !.circulation_30min_change = JsonChange(@),
                    !.holder_influence_change = JsonChange(@),
                    !.trader_influence_change = JsonChange(@)]
  ELSE coin

\* The coins member of the body: the records under the keys of the symbol
\* format.
CoinsBody(cache) ==
  [s \in { k \in DOMAIN cache : SymbolFormat(CharsOf(k)) } |-> JsonCoin(cache[s])]

\* The handler of GET /api/coins behind its query validators.
CoinsRequest(valid) ==
  /\ lastResponse' = Response("coins", IF valid THEN 200 ELSE 400)
  /\ UNCHANGED << hubVars, breakerVars, rateVars, now >>


\* ------------------------------------------------------------------------
\* Specification of the change computation: refresh cycles over snapshots
\* whose holders value ranges over the raw values, and the coins endpoint
\* ------------------------------------------------------------------------
ChangeValues ==
  { NULL, "", "0", "3", "-5", "1000", "1100", "1,100", "99999", "100000",
    "abc", "12abc", "Infinity" }

PriorSnapshots ==
  { [s \in {"BTC"} |-> Coin4(s, v, "3", "100000", "1000")] : v \in ChangeValues }

ChangeFetches ==
  { EmptySnapshot }
    \cup { [s \in {"BTC"} |-> Coin4(s, v, "1000", "99999", "-5")] :
             v \in ChangeValues }
    \cup { [s \in {"BTC", "ETH"} |->
              IF s = "BTC" THEN Coin4(s, v, "1000", "99999", "-5")
              ELSE Coin(s, "1000", "abc")] : v \in ChangeValues }

ChangesNext ==
  \/ PeriodicTick
  \/ \E updatedData \in ChangeFetches : PeriodicFetched(updatedData)
  \/ \E valid \in BOOLEAN : CoinsRequest(valid)

InitChanges ==
  \E prior \in PriorSnapshots : InitServing(prior, 0, << "10.0.0.1" >>)

SpecChanges == InitChanges /\ [][ChangesNext]_vars

\* The tracked metrics and the field their change is attached under.
Tracked ==
  << [metric |-> "holders", change |-> "holders_change"],
     [metric |-> "circulation", change |-> "circulation_30min_change"],
     [metric |-> "holder_influence", change |-> "holder_influence_change"],
     [metric |-> "trader_influence", change |-> "trader_influence_change"] >>

\* The number a raw value denotes, << >> when it is missing or not a
\* decimal numeral (thousands separators allowed).
DecimalValue(v) ==
  CASE v = "0" -> << 0 >>
    [] v = "3" -> << 3 >>
    [] v = "-5" -> << -5 >>
    [] v = "1000" -> << 1000 >>
    [] v = "1100" -> << 1100 >>
    [] v = "1,100" -> << 1100 >>
    [] v = "99999" -> << 99999 >>
    [] v = "100000" -> << 100000 >>
    [] OTHER -> << >>

\* text is num / den * 100 written with two decimals: digits only, within
\* half a hundredth of the quotient, and signed like it unless it reads 0.00.
TwoDecimals(text, num, den) ==
  /\ text.word = ""
  /\ text.frac \in 0..99
  /\ LET h == text.whole * 100 + text.frac IN
       /\ 2 * Abs(h * Abs(den) - Abs(num) * 10000) <= Abs(den)
       /\ h # 0 => (text.neg = ((num < 0) # (den < 0)))

\* C21: for every asset in both the prior and the new snapshot and every
\* tracked metric whose old and new values are both numeric with old # 0, the
\* refresh attaches a change record with absolute = new - old and percent =
\* (new - old) / old * 100 written with exactly two decimals, and the coins
\* endpoint returns that same record.
C21_ChangeRecords ==
  [][ RefreshApplied =>
        \A s \in DOMAIN coinsCache \cap DOMAIN coinsCache' :
          \A k \in DOMAIN Tracked :
            LET old == DecimalValue(coinsCache[s][Tracked[k].metric])
                new == DecimalValue(coinsCache'[s][Tracked[k].metric])
                attached == coinsCache'[s][Tracked[k].change]
            IN  (old # << >> /\ new # << >> /\ old[1] # 0) =>
                  /\ attached # NoChange
                  /\ attached[1].absolute = Finite(new[1] - old[1])
                  /\ TwoDecimals(attached[1].percent, new[1] - old[1], old[1])
                  /\ CoinsBody(coinsCache')[s][Tracked[k].change] = attached
    ]_vars

\* A refresh took the holders of BTC from 1000 to 1100: the record carries
\* absolute 100 and percent "10.00", and so does the coins endpoint.
C21_Witness ==
  /\ "BTC" \in DOMAIN coinsCache
  /\ "holders_change" \in DOMAIN coinsCache["BTC"]
  /\ coinsCache["BTC"].prev_holders = "1000"
  /\ coinsCache["BTC"].holders = "1100"
  /\ coinsCache["BTC"].holders_change =
       << [absolute |-> Finite(100), percent |-> Fixed(FALSE, 10, 0)] >>
  /\ CoinsBody(coinsCache)["BTC"].holders_change = coinsCache["BTC"].holders_change
  /\ coinsCache["BTC"].holder_influence_change =
       << [absolute |-> Finite(-1), percent |-> Fixed(TRUE, 0, 0)] >>


\* C22: for every asset in both snapshots and every tracked metric, the
\* attached change is null exactly when the old or the new value is missing
\* or non-numeric or the old value is zero, and otherwise a well-formed
\* record; no attached record has a NaN or infinite absolute or percent.
C22_NullOrWellFormed ==
  [][ RefreshApplied =>
        \A s \in DOMAIN coinsCache \cap DOMAIN coinsCache' :
          \A k \in DOMAIN Tracked :
            LET old == DecimalValue(coinsCache[s][Tracked[k].metric])
                new == DecimalValue(coinsCache'[s][Tracked[k].metric])
                attached == coinsCache'[s][Tracked[k].change]
            IN  /\ (attached = NoChange) <=>
                     (old = << >> \/ new = << >> \/ old[1] = 0)
                /\ attached # NoChange =>
                     /\ IsFinite(attached[1].absolute)
                     /\ attached[1].percent.word = ""
    ]_vars


\* ------------------------------------------------------------------------
\* Specification of the scheduler: initializeData from a new server, the
\* periodic refresh, shutdown and the coins endpoint
\* ------------------------------------------------------------------------
RefreshFetches == { EmptySnapshot, Snap1, Snap2, Snap3 }

RefreshNext ==
  \/ InitializeStart
  \/ \E savedData \in SavedSnapshots, ok \in BOOLEAN : InitLoaded(savedData, ok)
  \/ \E freshData \in RefreshFetches : InitFetched(freshData)
  \/ InitFetchRejected
  \/ InitSaved
  \/ InitCleaned
  \/ PeriodicTick
  \/ PeriodicFailed
  \/ \E updatedData \in RefreshFetches : PeriodicFetched(updatedData)
  \/ shutdown
  \/ \E valid \in BOOLEAN : CoinsRequest(valid)

SpecRefresh == InitFresh /\ [][RefreshNext]_vars


\* A refresh cycle ends whose fetch failed or gave an empty snapshot.
CycleFailed == PeriodicFailed \/ PeriodicFetched(EmptySnapshot)

\* C23: a refresh cycle whose fetch fails or gives an empty snapshot leaves
\* the current and the previous snapshot exactly as they were, persists
\* nothing, and the coins endpoint goes on serving the old snapshot.
C23_FailedCycleKeepsSnapshot ==
  [][ CycleFailed =>
        /\ coinsCache' = coinsCache
        /\ previousCache' = previousCache
        /\ persisted' = persisted
        /\ CoinsBody(coinsCache') = CoinsBody(coinsCache)
    ]_vars

\* The cycle that was started is over with nothing fetched: the snapshot of
\* the initial fetch is still current, still served, and the only one saved.
C23_Witness ==
  /\ cyclesStarted = MaxCycles
  /\ cyclesInFlight = 0
  /\ Len(persisted) = 1
  /\ coinsCache = Snap1
  /\ CoinsBody(coinsCache) = Snap1


\* C24: every refresh cycle whose upstream fetch fails is recorded as a
\* failure with the circuit breaker: the failure counter goes up by one.
C24_FailedCycleRecorded ==
  [][ CycleFailed => failureCount' = failureCount + 1 ]_vars

\* C25: the current snapshot changes only in the ingest step of a refresh
\* cycle, and then as a whole: every asset of the new snapshot comes from
\* that one fetch, so no reader sees part of a fetch.
C25_SnapshotOnlyByIngest ==
  [][ coinsCache' # coinsCache =>
        /\ RefreshApplied
        /\ persisted'[Len(persisted')] = coinsCache'
    ]_vars

\* C26: after a refresh cycle with a non-empty fetch the current snapshot
\* is exactly the fetched one - its assets, each with the fetched values -
\* and the snapshot it replaced is the previous snapshot.
C26_SnapshotReplaced ==
  [][ \A updatedData \in RefreshFetches :
        (HasAssets(updatedData) /\ PeriodicFetched(updatedData)) =>
          /\ DOMAIN coinsCache' = DOMAIN updatedData
          /\ \A s \in DOMAIN updatedData :
               \A f \in DOMAIN updatedData[s] : coinsCache'[s][f] = updatedData[s][f]
          /\ previousCache' = coinsCache
    ]_vars

\* A cycle replaced a snapshot holding BTC by a fetch without BTC: BTC is
\* in the previous snapshot only.
C26_Witness ==
  /\ Len(persisted) >= 2
  /\ cyclesInFlight = 0
  /\ coinsCache = Snap3
  /\ "BTC" \in DOMAIN previousCache
  /\ "BTC" \notin DOMAIN coinsCache

\* initializeData has run to its end, with or without an error.
InitCompleted(pc) == pc \in { "done", "failed" }

\* C27: a periodic refresh is scheduled after every completed
\* initializeData, so that a later cycle fetches again after a failure, also
\* one during the initial fetch.
C27_RefreshAlwaysScheduled ==
  [][ (~InitCompleted(initPc) /\ InitCompleted(initPc')) => saveInterval' ]_vars

\* C28: when shutdown() returns the registry is empty and no refresh timer
\* is scheduled, and none is scheduled from then on, at whatever point of
\* initializeData shutdown was called.
C28_ShutdownStopsRefresh ==
  [][ /\ shutdown => (Registered' = {} /\ ~saveInterval')
      /\ shutdownReturned => ~saveInterval'
    ]_vars


\* ------------------------------------------------------------------------
\* GET /api/coin/:symbol with any symbol parameter (SpecDetail)
\* ------------------------------------------------------------------------
Whitespace == { " " }

\* String.prototype.trim
RECURSIVE TrimStart(_)
TrimStart(chars) ==
  IF chars # << >> /\ Head(chars) \in Whitespace THEN TrimStart(Tail(chars))
  ELSE chars
RECURSIVE TrimEnd(_)
TrimEnd(chars) ==
  IF chars # << >> /\ chars[Len(chars)] \in Whitespace
  THEN TrimEnd(SubSeq(chars, 1, Len(chars) - 1))
  ELSE chars
Trim(chars) == TrimEnd(TrimStart(chars))

\* String.prototype.toUpperCase
ToUpperChar(c) ==
  IF \E k \in DOMAIN LowerCase : LowerCase[k] = c
  THEN UpperCase[CHOOSE k \in DOMAIN LowerCase : LowerCase[k] = c]
  ELSE c
ToUpperCase(chars) == [k \in DOMAIN chars |-> ToUpperChar(chars[k])]

\* The string of a sequence of characters.
RECURSIVE Concat(_)
Concat(chars) == IF chars = << >> THEN "" ELSE Head(chars) \o Concat(Tail(chars))

\* String.prototype.includes
Contains(chars, pattern) ==
  \E i \in 0..(Len(chars) - Len(pattern)) :
    SubSeq(chars, i + 1, i + Len(pattern)) = pattern

DangerousPatterns ==
  { << ".", "." >>, << "/" >>, << "\\" >>, << "<" >>, << ">" >>, << "\"" >>,
    << "'" >>, << "%" >>, << "&" >>, << "$" >>, << "#" >>, << "@" >>,
    << "!" >>, << "?" >>, << ":" >>, << ";" >>,
    << "_", "_", "p", "r", "o", "t", "o", "_", "_" >>,
    << "c", "o", "n", "s", "t", "r", "u", "c", "t", "o", "r" >>,
    << "p", "r", "o", "t", "o", "t", "y", "p", "e" >> }

\* A validator that lets every value through.
isValidCoinSymbolAny(value) == TRUE

\* The custom validator: TRUE when it returns true, FALSE when it throws.
isValidCoinSymbol(value) ==
  /\ SymbolFormat(value)
  /\ ~ \E pattern \in DangerousPatterns : Contains(value, pattern)

\* The route with its validation chain: the parameter is trimmed and
\* upper-cased, then validated; handleValidationErrors answers 400 when the
\* validator threw, otherwise the handler runs with the sanitized value.
DetailRoute(param) ==
  LET value == ToUpperCase(Trim(param)) IN
    IF isValidCoinSymbol(value)
    THEN DetailRequest(Concat(value))
    ELSE /\ lastResponse' = Response("detail", 400)
         /\ UNCHANGED << hubVars, breakerVars, rateVars, now >>

\* Symbol parameters a client can send.
DetailParams ==
  { << "B", "T", "C" >>, << "b", "t", "c" >>, << " ", "B", "T", "C", " " >>,
    << "E", "t", "h" >>, << "X", "R", "P" >>, << "B", "1" >>,
    << "B" >>, << "b" >>, << " ", " " >>, << "B", "T", "C", "!" >>,
    << "B", "T", ".", "." >>, << "B", " ", "T" >>,
    << "A", "B", "C", "D", "E", "F", "G", "H", "I", "J", "K" >> }

DetailSpecNext ==
  \/ \E param \in DetailParams : DetailRoute(param)
  \/ \E ok \in BOOLEAN : DetailPrice(ok)
  \/ \E ok \in BOOLEAN : DetailCandle(ok)
  \/ PeriodicTick
  \/ \E updatedData \in RefreshFetches : PeriodicFetched(updatedData)

InitDetail ==
  \E freshData \in { EmptySnapshot, Snap1, Snap3 } :
    InitServing(freshData, 0, << "10.0.0.1" >>)

SpecDetail == InitDetail /\ [][DetailSpecNext]_vars

\* The request was turned away with status 400, no call to the upstream
\* was started and nothing else changed.
TurnedAway ==
  /\ lastResponse' = Response("detail", 400)
  /\ ~UpstreamStarted
  /\ UNCHANGED << hubVars, breakerVars, rateVars, now >>

StatusPath == << "api", "ddos-status" >>
Routes ==
  << [pattern |-> << "api", "stream" >>, handler |-> "stream"],
     [pattern |-> << "api", "coins" >>, handler |-> "coins"],
     [pattern |-> << "api", "coin", ":symbol" >>, handler |-> "detail"],
     [pattern |-> << "*" >>, handler |-> "page"],
     [pattern |-> StatusPath, handler |-> "status"] >>

RouteMatches(pattern, path) ==
  \/ pattern = << "*" >>
  \/ /\ Len(pattern) = Len(path)
     /\ \A k \in DOMAIN pattern : pattern[k] = ":symbol" \/ pattern[k] = path[k]

\* Express runs the first registered route that matches; none of the
\* handlers here passes the request on.
FirstRoute(path) ==
  Routes[CHOOSE k \in DOMAIN Routes :
           /\ RouteMatches(Routes[k].pattern, path)
           /\ \A j \in 1..(k - 1) : ~RouteMatches(Routes[j].pattern, path)]

\* trim() on the entries of an x-forwarded-for list.
AddrTrim(entry) == IF entry = " 127.0.0.1" THEN "127.0.0.1" ELSE entry

\* getClientIP: the first entry of x-forwarded-for (<< >> when the header
\* is absent), else the address of the socket.
getClientIP(forwardedFor, remoteAddress) ==
  IF forwardedFor # << >> THEN AddrTrim(forwardedFor[1]) ELSE remoteAddress

Answer(code, body, data) == [code |-> code, body |-> body, data |-> data]

\* The handler of GET /api/ddos-status.
ddosStatus(forwardedFor, remoteAddress) ==
  IF getClientIP(forwardedFor, remoteAddress) \notin { "127.0.0.1", "::1" }
  THEN Answer(403, "Forbidden", << >>)
  ELSE Answer(200, "status",
              << [blacklistedIPs |-> Cardinality(blacklistedIPs),
                  sseConnections |-> Cardinality(Registered),
                  circuitBreaker |-> circuitBreakerState] >>)

\* What a GET request for a path that no data route serves is answered.
HandleGet(path, forwardedFor, remoteAddress) ==
  IF FirstRoute(path).handler = "status"
  THEN ddosStatus(forwardedFor, remoteAddress)
  ELSE Answer(200, "Server running", << >>)

RemoteAddresses == { "127.0.0.1", "::1", "10.0.0.1", "203.0.113.7" }
ForwardedHeaders ==
  { << >>, << "127.0.0.1" >>, << " 127.0.0.1" >>, << "10.0.0.1" >>,
    << "127.0.0.1", "10.0.0.1" >>, << "10.0.0.1", "127.0.0.1" >> }
RequestPaths == { StatusPath, << >>, << "health" >> }

RequestCalls ==
  { [fn |-> "GET", path |-> path, remoteAddress |-> ra, forwardedFor |-> ff] :
      path \in RequestPaths, ra \in RemoteAddresses, ff \in ForwardedHeaders }

InitRequests ==
  /\ InitCreated
  /\ running = FALSE
  /\ runs = << >>
  /\ starts = 0
  /\ call \in RequestCalls
  /\ returned = NotReturned

GetAnswered ==
  /\ call.fn = "GET"
  /\ returned = NotReturned
  /\ returned' = [status |-> "sent",
                  value |-> << HandleGet(call.path, call.forwardedFor,
                                         call.remoteAddress) >>]
  /\ UNCHANGED << serverVars, running, runs, starts, call >>

SpecRequests == InitRequests /\ [][GetAnswered]_vars

\* C30: the status endpoint returns its data (blacklist size, active
\* connections, breaker state) to a request from a loopback address, and
\* answers 403 without status data to a request from any other address,
\* whatever headers it carries.
C30_StatusLoopbackOnly ==
  (call.fn = "GET" /\ call.path = StatusPath /\ returned # NotReturned) =>
    LET answer == returned.value[1] IN
      IF call.remoteAddress \in { "127.0.0.1", "::1" }
      THEN answer.code = 200 /\ answer.data # << >>
      ELSE answer.code = 403 /\ answer.data = << >>

\* ------------------------------------------------------------------------
\* DataManager.cleanOldData on the CSV log (SpecPrune)
\* ------------------------------------------------------------------------
\* A row of the log is its timestamp, kept as its age in whole days at the
\* time of the call.
RetentionDays == 7
MaxRows == 3
RowAges == { 0, 6, 7, 8 }
Row(age) == [age |-> age]

\* rowDate > sevenDaysAgo
Recent(row) == row.age < RetentionDays

\* The content of the CSV file after cleanOldData: nothing is done when the
\* file does not exist, and the file is rewritten only when some row is kept.
cleanOldData(exists, rows) ==
  IF ~exists THEN rows
  ELSE LET keepData == SelectSeq(rows, Recent)
       IN  IF Len(keepData) > 0 THEN keepData ELSE rows

Logs == UNION { [1..n -> { Row(a) : a \in RowAges }] : n \in 0..MaxRows }

PruneCalls ==
  { [fn |-> "cleanOldData", exists |-> TRUE, rows |-> rows] : rows \in Logs }
    \cup { [fn |-> "cleanOldData", exists |-> FALSE, rows |-> << >>] }

InitPrune ==
  /\ InitCreated
  /\ running = FALSE
  /\ runs = << >>
  /\ starts = 0
  /\ call \in PruneCalls
  /\ returned = NotReturned

ReturnPrune ==
  /\ call.fn = "cleanOldData"
  /\ returned = NotReturned
  /\ returned' = [status |-> "sent",
                  value |-> << cleanOldData(call.exists, call.rows) >>]
  /\ UNCHANGED << serverVars, running, runs, starts, call >>

SpecPrune == InitPrune /\ [][ReturnPrune]_vars

Older(row) == row.age > RetentionDays

\* C31: after cleanOldData the log holds exactly the rows of the last
\* 7 days: no row older than 7 days is left, and the rows younger than
\* 7 days are the ones the log had, in their order.
C31_PruneKeepsLastSevenDays ==
  (call.fn = "cleanOldData" /\ returned # NotReturned) =>
    LET log == returned.value[1] IN
      /\ SelectSeq(log, Older) = << >>
      /\ SelectSeq(log, Recent) = SelectSeq(call.rows, Recent)

\* ------------------------------------------------------------------------
\* Requests of a blacklisted address (SpecRate)
\* ------------------------------------------------------------------------
\* C32: a request from a blacklisted IP is answered 403 by the first
\* admission step and changes no state: the per-second counters, the
\* blacklist and its timers, the subscriber registry, the per-IP connection
\* counts, the circuit breaker and the snapshot stay as they were, and the
\* 403 is the response of the request (nothing after the first step runs).
C32_BlacklistedChangesNothing ==
  [][ \A clean \in BOOLEAN :
        (Request(arrivals.ip, clean) /\ arrivals.ip \in blacklistedIPs) =>
          /\ lastResponse' = Response("request", 403)
          /\ UNCHANGED << requestCounts, blacklistedIPs, blacklistTimers,
                          hubVars, breakerVars >> ]_vars

\* A blacklisted client has been refused.
C32_Witness ==
  /\ arrivals.ip \in blacklistedIPs
  /\ lastResponse = Response("request", 403)

\* ------------------------------------------------------------------------
\* Detail fetches in flight on one fetcher (SpecRun)
\* ------------------------------------------------------------------------
\* The fetchCoinDetails calls of run r that have not settled: the batch at
\* its offset while the run awaits Promise.allSettled.
BatchInFlight(r) ==
  IF runs[r].phase = "batch"
  THEN Min(batchSize, Len(runs[r].coinList) - runs[r].i)
  ELSE 0

RECURSIVE InFlightUpTo(_)
InFlightUpTo(r) == IF r = 0 THEN 0 ELSE BatchInFlight(r) + InFlightUpTo(r - 1)

\* The detail fetches of the fetcher that are in flight.
FetcherInFlight == InFlightUpTo(Len(runs))

\* C33: the detail fetches of a fetch are issued in batches of at most 10,
\* a batch only after the batch before it settled, so that at most 10 asset
\* fetches of the fetcher are in flight at any time.
C33_AtMostOneBatchInFlight ==
  /\ \A r \in DOMAIN runs : BatchInFlight(r) <= batchSize
  /\ FetcherInFlight <= batchSize

\* ------------------------------------------------------------------------
\* Delivery of a fetch in progress after a teardown (SpecTeardown)
\* ------------------------------------------------------------------------
\* The detail fetches of fetcher f's current batch settle in this step.
BatchSettled(f) ==
  /\ fetchers[f].phase = "batch"
  /\ BatchOf(fetchers[f]) # << >>
  /\ fetchers'[f].phase = "done" \/ fetchers'[f].i # fetchers[f].i

\* C34: the subscribers attached to the stream keep receiving the asset
\* updates of a fetch in progress whoever else was torn down, the
\* subscriber whose connection started the fetch included: when a batch of
\* a fetch settles, every subscriber that is registered before and after
\* the step is written its records.
C34_FetchOutlivesItsSubscriber ==
  [][ \A f \in DOMAIN fetchers :
        BatchSettled(f) =>
          \A id \in Registered :
            id \in DOMAIN sseConnections' => Len(sent'[id]) > Len(sent[id]) ]_vars

\* ------------------------------------------------------------------------
\* Which assets of a refresh are annotated (SpecRefresh)
\* ------------------------------------------------------------------------
\* The fields the change computation adds to a record.
ChangeFields ==
  { "holders_change", "circulation_30min_change", "holder_influence_change",
    "trader_influence_change", "prev_holders", "prev_circulation",
    "prev_holder_influence", "prev_trader_influence", "last_update" }

\* C35: when a refresh installs a snapshot, an asset with no entry in the
\* prior snapshot is installed as fetched, with no change record, no
\* previous-value field and no last_update; an asset with an entry in the
\* prior snapshot carries all of them, so last_update is on exactly the
\* assets that had a prior entry.
C35_OnlyKnownAssetsAnnotated ==
  [][ \A updatedData \in RefreshFetches :
        (PeriodicFetched(updatedData) /\ HasAssets(updatedData)) =>
          \A s \in DOMAIN coinsCache' :
            IF s \in DOMAIN coinsCache
            THEN ChangeFields \subseteq DOMAIN coinsCache'[s]
            ELSE /\ coinsCache'[s] = updatedData[s]
                 /\ ChangeFields \cap DOMAIN coinsCache'[s] = {} ]_vars

\* A refresh installed an asset that had a prior entry next to one that
\* had none.
C35_Witness ==
  /\ previousCache # EmptySnapshot
  /\ \E s \in DOMAIN coinsCache \cap DOMAIN previousCache :
       "last_update" \in DOMAIN coinsCache[s]
  /\ \E s \in DOMAIN coinsCache \ DOMAIN previousCache :
       "last_update" \notin DOMAIN coinsCache[s]

\* ------------------------------------------------------------------------
\* The breaker under recorded failures, recorded successes and its timers
\* (SpecBreakerCalls)
\* ------------------------------------------------------------------------
\* recordSuccess() is called.
SuccessRecorded ==
  /\ LET B == recordSuccess(Breaker)
     IN  /\ circuitBreakerState' = B.state
         /\ failureCount' = B.count
         /\ breakerTimers' = B.timers
  /\ Quiet
  /\ UNCHANGED << hubVars, lastOpened, rateVars, now >>

\* Failures are recorded while fewer than MaxTimers half-open timers are
\* pending.
MaxTimers == 3

BreakerCallsNext ==
  \/ \E message \in ErrorMessages :
        Len(breakerTimers) < MaxTimers /\ ErrorHandler(message)
  \/ SuccessRecorded
  \/ BreakerTimer
  \/ \E d \in BreakerDelays : AdvanceTime(d, BreakerHorizon)

SpecBreakerCalls == InitBreaker /\ [][BreakerCallsNext]_vars

BreakerTransitions ==
  { << "closed", "open" >>, << "open", "half-open" >>,
    << "half-open", "closed" >>, << "half-open", "open" >> }

RegisteredOf(ip) == { id \in Registered : sseConnections[id].ip = ip }

\* C37: in every reachable state the per-IP connection count of every
\* client address equals the number of registered subscribers with that
\* address.
C37_PerIPCountMatchesRegistry ==
  \A ip \in DOMAIN sseConnectionsPerIP :
    sseConnectionsPerIP[ip] = Cardinality(RegisteredOf(ip))

\* ------------------------------------------------------------------------
\* Run loops of one fetcher (SpecRun)
\* ------------------------------------------------------------------------
\* C38: a fetcher has at most one run loop in progress at any time,
\* whatever the interleaving of start() and stop(), and this.running is
\* set while a run loop that stop() was not called on is in progress.
C38_SingleRunLoop ==
  /\ Cardinality(InProgress) <= 1
  /\ (\E r \in InProgress : ~runs[r].stopped) => running

\* ------------------------------------------------------------------------
\* Refresh cycles that overlap (SpecOverlap)
\* ------------------------------------------------------------------------
\* Two interval ticks; every fetch delivers assets, and fetches settle in
\* any order.
MaxOverlap == 2
OverlapFetches == { Snap1, Snap2, Snap3 }
OverlapDelays == { THIRTY_MINUTES }
OverlapHorizon == 2 * THIRTY_MINUTES

OverlapNext ==
  \/ TickUpTo(MaxOverlap)
  \/ \E updatedData \in OverlapFetches : PeriodicFetched(updatedData)
  \/ \E d \in OverlapDelays : AdvanceTime(d, OverlapHorizon)

InitOverlap == InitServing(Snap1, 0, << "10.0.0.1" >>)

SpecOverlap == InitOverlap /\ [][OverlapNext]_vars

\* The cycles whose fetch settles in this step.
CyclesSettled == cyclesPending \ cyclesPending'

\* A cycle started after cycle c has already installed its snapshot.
Superseded(c) ==
  \E d \in (c + 1)..cyclesStarted : d \notin cyclesPending

\* C39: overlapping refresh cycles do not corrupt the snapshot: a cycle
\* that finishes after a cycle started later than it has installed its
\* snapshot does not overwrite that snapshot, so the snapshot finally
\* installed is that of the cycle started last; and every swap keeps as
\* previous snapshot the one that was current immediately before it.
C39_LatestCycleWins ==
  [][ \A c \in CyclesSettled :
        /\ Superseded(c) => coinsCache' = coinsCache
        /\ coinsCache' # coinsCache => previousCache' = coinsCache ]_vars

\* ------------------------------------------------------------------------
\* Pruning of the per-second counters (SpecRate)
\* ------------------------------------------------------------------------
\* Math.floor(Date.now() / 1000)
CurrentSecond == EpochSeconds + (now \div 1000)

\* A request was counted and the pruning pass ran after it.
PruningPass == Request(arrivals.ip, TRUE) /\ lastResponse' = NoResponse

\* C40: the pruning of the per-second counters removes only counters whose
\* bucket is more than 10 seconds older than the current second (so never
\* the counter of the current second), and a pruning pass leaves no counter
\* that old, whatever the form of the client address in the key.
C40_PruningByAge ==
  [][ /\ \A k \in DOMAIN requestCounts \ DOMAIN requestCounts' :
           k.second < CurrentSecond - CleanupAge
      /\ PruningPass =>
           \A k \in DOMAIN requestCounts' :
             k.second >= CurrentSecond - CleanupAge ]_vars

====
